---- MODULE Spec2Model ----
(***************************************************************************)
(* Context-window management of the agent backend (package agent).         *)
(*                                                                         *)
(* One conversation, its message log (agent_messages) and its record       *)
(* (agent_conversations.summary / summary_up_to).  Every request is one    *)
(* worker running AgentService.ProcessMessage; every store access is one   *)
(* atomic step, so that requests for the same conversation interleave at   *)
(* exactly the points where the Go code talks to the database.             *)
(*                                                                         *)
(* created_at is the store's NOW(): the model draws it from a clock that   *)
(* strictly increases from one insert to the next; the code only compares  *)
(* timestamps, so the size of the step is immaterial.                      *)
(***************************************************************************)
EXTENDS Integers, Sequences, FiniteSets, TLC

VARIABLES
    windowSize,        \* AgentService.windowSize
    summarizeTrigger,  \* AgentService.summarizeTrigger
    msgs,              \* agent_messages rows of the conversation, in insertion order
    conv,              \* agent_conversations row: summary, summary_up_to
    clock,             \* last created_at handed out by the store
    pc,                \* per worker: position inside ProcessMessage
    summary,           \* per worker: local `summary` of getConversationWindow
    cursor,            \* per worker: local `cursor` of getConversationWindow
    count,             \* per worker: local `count` (cursor path)
    total,             \* per worker: local `total` (no-cursor path)
    allMsgs,           \* per worker: list handed to summarizeOldMessages
    summaryText,       \* per worker: local `summaryText` of summarizeOldMessages
    sumErr,            \* per worker: summarizeOldMessages returned an error
    window,            \* per worker: the conversationWindow returned
    workers,           \* the workers that take requests in this run
    cap,               \* the number of messages the store accepts in this run
    env,               \* what the clients, the engine and the stores may do in this run
    quota,             \* per worker: requests it may still take (-1: any number)
    hist,              \* history of a one-worker run: the window last handed to a
                       \* branch, the last summary write
    archived,          \* agent_conversations.archived_at is set
    title,             \* agent_conversations.title
    req,               \* per worker: the SendMessageRequest being served
    resp,              \* per worker: the completion engine's response
    sent,              \* per worker: the message lists sent to the completion engine in this turn
    memory,            \* agent_user_memories: public key -> document
    cache,             \* the Redis keys: suggestions and the pending build
    now,               \* the time, in ticks of the cache's clock
    minted,            \* the suggestion ids generated so far: when, and whether returned
    result,            \* per worker: what SendMessage answers
    began,             \* history: the stores when the turn began
    last,              \* history: the turn before this one
    amount,            \* history: config["fromAmount"] as the engine gave it
    decimals,          \* the decimals of the balance matching from.token
    fromAmount         \* config["fromAmount"] once converted to base units

vars == <<windowSize, summarizeTrigger, workers, cap, env, quota, msgs, conv, clock, pc, summary, cursor,
          count, total, allMsgs, summaryText, sumErr, window, hist,
          archived, title, req, resp, sent, memory, cache, now, minted,
          result, began, last, amount, decimals, fromAmount>>

\* what no step of ProcessMessage changes: the service's settings, the
\* clients, and the amount of a policy configuration
config == <<windowSize, summarizeTrigger, workers, cap, env, amount, decimals,
            fromAmount>>

locals == <<summary, cursor, count, total, allMsgs, summaryText, sumErr, window>>

\* the state of the branches (Detect, Build, Confirm) and of their stores
branches == <<archived, title, req, resp, sent, memory, cache, now, minted,
              result, began, last>>

-----------------------------------------------------------------------------
(* Bounds *)

\* messages stored in a run of one worker, in a run of overlapping workers
\* and in a long run of overlapping workers
MaxMsgs == 8
MaxRaceMsgs == 5
MaxLongRaceMsgs == 6
\* requests the second worker takes while the first serves the conversation
MaxOverlap == 1
ClockStep == 2
\* texts the completion engine may return for one prompt, in a run of one
\* worker; overlapping workers get the same text for the same prompt
NumVariants == 2

Procs == {1, 2}
SeqProcs == {1}
Variants == IF workers = SeqProcs THEN 1..NumVariants ELSE {1}

\* deployments explored, <<windowSize, summarizeTrigger>> with
\* summarizeTrigger > windowSize, for one worker and for overlapping workers
Configs == {<<1, 2>>, <<2, 3>>}
RaceConfigs == {<<1, 2>>}

-----------------------------------------------------------------------------
(* Values *)

\* a nil *string / *time.Time is the empty tuple, a set pointer a 1-tuple
Nil == <<>>
Ptr(v) == <<v>>
Deref(p) == p[1]

Min(a, b) == IF a <= b THEN a ELSE b

NoWindow == [messages |-> <<>>, summary |-> Nil, total |-> 0]

NoHist == [win |-> NoWindow, len |-> 0 - 1, failed |-> FALSE, sumLen |-> 0 - 1]

Ids(list) == {list[i].id : i \in DOMAIN list}

-----------------------------------------------------------------------------
(* Message store queries (sqlc/messages.sql) and repository wrappers *)

RECURSIVE OrderAsc(_)
OrderAsc(S) ==
    IF S = {} THEN <<>>
    ELSE LET m == CHOOSE x \in S : \A y \in S : x.created_at <= y.created_at
         IN  <<m>> \o OrderAsc(S \ {m})

RECURSIVE OrderDesc(_)
OrderDesc(S) ==
    IF S = {} THEN <<>>
    ELSE LET m == CHOOSE x \in S : \A y \in S : x.created_at >= y.created_at
         IN  <<m>> \o OrderDesc(S \ {m})

Limit(list, n) == SubSeq(list, 1, Min(n, Len(list)))

Reverse(list) == [i \in 1..Len(list) |-> list[Len(list) + 1 - i]]

Rows == {msgs[i] : i \in DOMAIN msgs}

CountMessagesByConversationID == Cardinality(Rows)

GetMessagesByConversationID == OrderAsc(Rows)

CountMessagesSince(t) == Cardinality({m \in Rows : m.created_at > t})

\* faulty variant: the cursor's own message counts as active (>= for >)
GetMessagesSinceInclusive(t) == OrderAsc({m \in Rows : m.created_at >= t})

GetMessagesSince(t) == OrderAsc({m \in Rows : m.created_at > t})

GetRecentMessagesSince(t, n) == Limit(OrderDesc({m \in Rows : m.created_at > t}), n)

GetRecentMessages(n) == Limit(OrderDesc(Rows), n)

GetRecentSince(t, n) == Reverse(GetRecentMessagesSince(t, n))

GetRecent(n) == Reverse(GetRecentMessages(n))

\* INSERT ... RETURNING *: created_at = NOW(), strictly after the previous insert
CreateMessage(role, t) ==
    Append(msgs, [id |-> Len(msgs) + 1, role |-> role, created_at |-> t])

-----------------------------------------------------------------------------
(* Conversation record queries (conversations.sql) *)

GetConversationSummaryWithCursor == <<conv.summary, conv.summary_up_to>>

\* faulty variant: the summary is written without the cursor
UpdateConversationSummaryOnly(text, upTo) ==
    [summary |-> Ptr(text), summary_up_to |-> conv.summary_up_to]

UpdateConversationSummaryWithCursor(text, upTo) ==
    [summary |-> Ptr(text), summary_up_to |-> Ptr(upTo)]

-----------------------------------------------------------------------------
(* summarizeOldMessages, pure parts *)

\* faulty variant: the split keeps one message too many
OldMsgsKeepOneMore(list) == SubSeq(list, 1, Len(list) - windowSize - 1)

\* oldMsgs := allMsgs[:len(allMsgs)-s.windowSize]
OldMsgs(list) == SubSeq(list, 1, Len(list) - windowSize)

\* the text a successful completion returns for the prompt built from the
\* previous summary and the old messages: it folds both (last: the newest
\* message of the prompt's message block), and the engine may word it in
\* several ways
SummaryOf(existingSummary, oldMsgs, v) ==
    [folded  |-> (IF existingSummary = Nil THEN {} ELSE Deref(existingSummary).folded)
                 \cup Ids(oldMsgs),
     last    |-> oldMsgs[Len(oldMsgs)].id,
     variant |-> v]

\* faulty variant: the cursor is taken from the first summarized message
SummaryUpToFirst(oldMsgs) == oldMsgs[1].created_at

\* summaryUpTo := oldMsgs[len(oldMsgs)-1].CreatedAt
SummaryUpTo(oldMsgs) == oldMsgs[Len(oldMsgs)].created_at

-----------------------------------------------------------------------------
(* Requests, engine responses and the stores of the branches *)

\* messages stored (a Detect turn stores two, which gives the turns served)
\* and suggestion ids generated in a run of the branches; the grain and the
\* span of the cache's clock
MaxTurnMsgs == 6
MaxTurns == MaxTurnMsgs \div 2
MaxSuggestions == 2
TicksPerHour == 2
MaxTime == 3
\* texts are up to MaxExtra characters longer than maxLen
MaxExtra == 2
\* amounts of up to MaxAmountLen characters, tokens of up to MaxDecimals decimals
MaxAmountLen == 4
MaxDecimals == 3

\* const maxMemoryBytes, const suggestionTTL = 1 * time.Hour, const maxLen
maxMemoryBytes == 4000
suggestionTTL == 1 * TicksPerHour
maxLen == 50

\* the conversation "c1" exists and belongs to "k1"; "c0" does not exist
ConvIds == {"c1", "c0"}
Keys == {"k1", "k2"}
Owner == "k1"
SuggIds == 1..MaxSuggestions
ActionResults ==
    { [action |-> "install_plugin", success |-> TRUE],
      [action |-> "install_plugin", success |-> FALSE],
      [action |-> "create_policy", success |-> TRUE] }

\* SendMessageRequest: the fields ProcessMessage and its branches read
Request(id, key, content, suggestion, action, token) ==
    [ conversation_id        |-> id,
      public_key             |-> key,
      content                |-> content,
      selected_suggestion_id |-> suggestion,
      action_result          |-> action,
      access_token           |-> token ]

NoRequest == Request("c0", "k2", "", Nil, Nil, FALSE)

\* a text for Detect
DetectRequests == {Request("c1", Owner, "hello", Nil, Nil, FALSE)}

\* a selected suggestion for Build, with or without an access token
BuildRequests ==
    {Request("c1", Owner, "", Ptr(i), Nil, token) : i \in SuggIds, token \in BOOLEAN}

\* the results in A for Confirm, alone or with a selected suggestion
ConfirmRequests(A) ==
    {Request("c1", Owner, "", s, Ptr(a), TRUE) : a \in A, s \in {Nil, Ptr(1)}}

\* nothing to serve, another conversation, another user's key
StrayRequests ==
    { Request("c1", Owner, "", Nil, Nil, FALSE),
      Request("c0", Owner, "hello", Nil, Nil, FALSE),
      Request("c1", "k2", "hello", Nil, Nil, FALSE) }

\* the sizes, len(mu.Content), and the texts of the documents the
\* update_memory tool may carry
MemorySizes == {maxMemoryBytes - 1, maxMemoryBytes, maxMemoryBytes + 1}
MemoryTexts == {"likes ETH", "likes BTC"}

\* anthropic.Response, by what the branches look for in its content blocks:
\* a non-empty text block; the branch's own tool (absent, unparsable input,
\* parsed); an update_memory call (absent, unparsable input, or the size of
\* its content); the suggestions of a parsed respond_to_user
MemoryCalls ==
    {[kind |-> "none", len |-> 0, text |-> ""], [kind |-> "bad", len |-> 0, text |-> ""]}
        \cup {[kind |-> "ok", len |-> n, text |-> t] : n \in MemorySizes, t \in MemoryTexts}

Responses ==
    [ text        : BOOLEAN,
      tool        : {"none", "bad", "ok"},
      memory      : MemoryCalls,
      suggestions : 0..MaxSuggestions ]

NoResponse ==
    [ text |-> FALSE, tool |-> "none",
      memory |-> [kind |-> "none", len |-> 0, text |-> ""], suggestions |-> 0 ]

\* ErrorResponse / SendMessageResponse as the API answers them: the HTTP
\* status and error text, or the stored message and the payload; cause is
\* the error ProcessMessage returned, branch the branch that served the turn
NoResult ==
    [ status |-> 0, error |-> "", cause |-> "", branch |-> "", message |-> 0,
      suggestions |-> {}, payload |-> "" ]

\* A Go string is its sequence of bytes: len counts bytes and s[:n] cuts
\* bytes.  The short ASCII texts of the turns are written as TLA+ strings,
\* one byte a character; any other text is the UTF-8 encoding of its code
\* points.
Dots == <<46, 46, 46>>

\* the UTF-8 encoding of a code point below 65536
EncodeRune(c) ==
    IF c < 128 THEN <<c>>
    ELSE IF c < 2048 THEN <<192 + c \div 64, 128 + (c % 64)>>
    ELSE <<224 + c \div 4096, 128 + ((c \div 64) % 64), 128 + (c % 64)>>

RECURSIVE Utf8(_)
Utf8(text) ==
    IF text = <<>> THEN <<>> ELSE EncodeRune(Head(text)) \o Utf8(Tail(text))

\* truncateTitle: len(content) <= maxLen, content[:maxLen-3] + "..."
truncateTitle(content) ==
    IF Len(content) <= maxLen
    THEN content
    ELSE SubSeq(content, 1, maxLen - 3) \o Dots

-----------------------------------------------------------------------------
\* no policy configuration is being converted
NoAmount == amount = "" /\ decimals = 0 /\ fromAmount = Nil

Start ==
    /\ msgs = <<>>
    /\ conv = [summary |-> Nil, summary_up_to |-> Nil]
    /\ clock = 0
    /\ pc = [p \in Procs |-> "idle"]
    /\ summary = [p \in Procs |-> Nil]
    /\ cursor = [p \in Procs |-> Nil]
    /\ count = [p \in Procs |-> 0]
    /\ total = [p \in Procs |-> 0]
    /\ allMsgs = [p \in Procs |-> <<>>]
    /\ summaryText = [p \in Procs |-> Nil]
    /\ sumErr = [p \in Procs |-> FALSE]
    /\ window = [p \in Procs |-> NoWindow]
    /\ hist = NoHist
    /\ title = Nil
    /\ req = [p \in Procs |-> NoRequest]
    /\ resp = [p \in Procs |-> NoResponse]
    /\ sent = [p \in Procs |-> <<>>]
    /\ memory = [k \in Keys |-> Nil]
    /\ cache = [suggestion |-> [i \in SuggIds |-> Nil], pending_build |-> Nil]
    /\ now = 0
    /\ minted = <<>>
    /\ result = [p \in Procs |-> NoResult]
    /\ began = Nil
    /\ last = Nil
    /\ NoAmount

\* no client but the one ProcessMessage stands for
NoEnv == [requests |-> {}, calls |-> {}, suggestions |-> {}]

\* requests for the conversation overlap
Race ==
    /\ env = NoEnv
    /\ archived = FALSE
    /\ \E c \in RaceConfigs : windowSize = c[1] /\ summarizeTrigger = c[2]
    /\ workers = Procs
    /\ quota = [p \in Procs |-> IF p \in SeqProcs THEN 0 - 1 ELSE MaxOverlap]
    /\ Start

Init == Race /\ cap = MaxRaceMsgs

InitLong == Race /\ cap = MaxLongRaceMsgs

\* requests are handled one after another
InitSeq ==
    /\ archived = FALSE
    /\ env = NoEnv
    /\ \E c \in Configs : windowSize = c[1] /\ summarizeTrigger = c[2]
    /\ workers = SeqProcs
    /\ cap = MaxMsgs
    /\ quota = [p \in Procs |-> IF p \in SeqProcs THEN 0 - 1 ELSE 0]
    /\ Start

\* the run stores no more than cap messages: past it the store rejects inserts
Room == Len(msgs) < cap

\* a summary write has landed: the history keeps the number of messages stored
Summarized ==
    hist' = IF workers = SeqProcs THEN [hist EXCEPT !.sumLen = Len(msgs)] ELSE hist

\* ProcessMessage hands the window to the branch: the history keeps it, with
\* the number of messages stored then and whether summarization had failed
Handed(p) ==
    hist' = IF workers = SeqProcs
            THEN [hist EXCEPT !.win = window[p], !.len = Len(msgs), !.failed = sumErr[p]]
            ELSE hist

\* getConversationWindow returns w to ProcessMessage
Returned(p, w) == window' = [window EXCEPT ![p] = w]

-----------------------------------------------------------------------------
(* ProcessMessage *)

\* a request arrives; GetByID finds the conversation
ProcessMessage(p) ==
    /\ p \in workers
    /\ quota[p] # 0
    /\ pc[p] = "idle"
    /\ quota' = [quota EXCEPT ![p] = IF @ > 0 THEN @ - 1 ELSE @]
    /\ pc' = [pc EXCEPT ![p] = "getSummary"]
    /\ UNCHANGED <<config, branches, msgs, conv, clock, locals, hist>>

-----------------------------------------------------------------------------
(* getConversationWindow *)

\* line 112
GetSummaryWithCursor(p) ==
    /\ pc[p] = "getSummary"
    /\ summary' = [summary EXCEPT ![p] = GetConversationSummaryWithCursor[1]]
    /\ cursor' = [cursor EXCEPT ![p] = GetConversationSummaryWithCursor[2]]
    /\ pc' = [pc EXCEPT ![p] = IF conv.summary_up_to # Nil THEN "countSince" ELSE "countAll"]
    /\ UNCHANGED <<config, branches, quota, msgs, conv, clock,
                   count, total, allMsgs, summaryText, sumErr, window, hist>>

\* lines 119-142: count the active messages and choose the branch
CountSince(p) ==
    /\ pc[p] = "countSince"
    /\ LET c == CountMessagesSince(Deref(cursor[p]))
       IN  /\ count' = [count EXCEPT ![p] = c]
           /\ pc' = [pc EXCEPT ![p] =
                        IF c <= windowSize THEN "getSince134"
                        ELSE IF c > summarizeTrigger THEN "getSince143"
                        ELSE "recent169"]
    /\ UNCHANGED <<config, branches, quota, msgs, conv, clock, summary, cursor,
                   total, allMsgs, summaryText, sumErr, window, hist>>

\* lines 133-139: the active messages fit in the window
GetSinceReturn(p) ==
    /\ pc[p] = "getSince134"
    /\ Returned(p, [messages |-> GetMessagesSince(Deref(cursor[p])),
                    summary  |-> summary[p],
                    total    |-> count[p]])
    /\ pc' = [pc EXCEPT ![p] = "route"]
    /\ UNCHANGED <<config, branches, quota, msgs, conv, clock, summary, cursor,
                   count, total, allMsgs, summaryText, sumErr, hist>>

\* faulty variant: summarizeOldMessages returns at once for every list
EnterSummarizeNever(list, reload) == reload

\* the entry of summarizeOldMessages (lines 244-246) for the list just loaded
EnterSummarize(list, reload) ==
    IF Len(list) <= windowSize THEN reload ELSE "summarize"

\* lines 142-148: the active messages exceed the trigger
GetSinceForSummarize(p) ==
    /\ pc[p] = "getSince143"
    /\ LET list == GetMessagesSince(Deref(cursor[p]))
       IN  /\ allMsgs' = [allMsgs EXCEPT ![p] = list]
           /\ pc' = [pc EXCEPT ![p] = EnterSummarize(list, "reload154")]
    /\ UNCHANGED <<config, branches, quota, msgs, conv, clock, summary, cursor,
                   count, total, summaryText, sumErr, window, hist>>

\* faulty variant: between window and trigger every active message is loaded
GetRecentSinceBetweenAll(p) ==
    /\ pc[p] = "recent169"
    /\ IF cursor[p] # Nil
       THEN /\ Returned(p, [messages |-> GetMessagesSince(Deref(cursor[p])),
                            summary  |-> summary[p],
                            total    |-> count[p]])
            /\ pc' = [pc EXCEPT ![p] = "route"]
       ELSE /\ pc' = [pc EXCEPT ![p] = "done"]
            /\ UNCHANGED window
    /\ UNCHANGED <<config, branches, quota, msgs, conv, clock, summary, cursor,
                   count, total, allMsgs, summaryText, sumErr, hist>>

\* lines 168-173: between window and trigger
GetRecentSinceBetween(p) ==
    /\ pc[p] = "recent169"
    /\ IF cursor[p] # Nil
       THEN /\ Returned(p, [messages |-> GetRecentSince(Deref(cursor[p]), windowSize),
                            summary  |-> summary[p],
                            total    |-> count[p]])
            /\ pc' = [pc EXCEPT ![p] = "route"]
       ELSE \* *cursor on a nil cursor: the request dies
            /\ pc' = [pc EXCEPT ![p] = "done"]
            /\ UNCHANGED window
    /\ UNCHANGED <<config, branches, quota, msgs, conv, clock, summary, cursor,
                   count, total, allMsgs, summaryText, sumErr, hist>>

\* lines 177-200: no cursor yet, count every message and choose the branch
CountByConversationID(p) ==
    /\ pc[p] = "countAll"
    /\ LET t == CountMessagesByConversationID
       IN  /\ total' = [total EXCEPT ![p] = t]
           /\ pc' = [pc EXCEPT ![p] =
                        IF t <= windowSize THEN "getAll"
                        ELSE IF t > summarizeTrigger THEN "getAll201"
                        ELSE "getAll"]
    /\ UNCHANGED <<config, branches, quota, msgs, conv, clock, summary, cursor,
                   count, allMsgs, summaryText, sumErr, window, hist>>

\* faulty variant: past the window size only the recent messages are loaded
GetByConversationIDReturnRecent(p) ==
    /\ pc[p] = "getAll"
    /\ Returned(p, [messages |-> IF total[p] <= windowSize
                                 THEN GetMessagesByConversationID
                                 ELSE GetRecent(windowSize),
                    summary  |-> Nil,
                    total    |-> total[p]])
    /\ pc' = [pc EXCEPT ![p] = "route"]
    /\ UNCHANGED <<config, branches, quota, msgs, conv, clock, summary, cursor,
                   count, total, allMsgs, summaryText, sumErr, hist>>

\* lines 191-197 and 233-238: every message, no summary
GetByConversationIDReturn(p) ==
    /\ pc[p] = "getAll"
    /\ Returned(p, [messages |-> GetMessagesByConversationID,
                    summary  |-> Nil,
                    total    |-> total[p]])
    /\ pc' = [pc EXCEPT ![p] = "route"]
    /\ UNCHANGED <<config, branches, quota, msgs, conv, clock, summary, cursor,
                   count, total, allMsgs, summaryText, sumErr, hist>>

\* lines 200-206: past the trigger, first-time summarization
GetByConversationIDForSummarize(p) ==
    /\ pc[p] = "getAll201"
    /\ LET list == GetMessagesByConversationID
       IN  /\ allMsgs' = [allMsgs EXCEPT ![p] = list]
           /\ pc' = [pc EXCEPT ![p] = EnterSummarize(list, "reload212")]
    /\ UNCHANGED <<config, branches, quota, msgs, conv, clock, summary, cursor,
                   count, total, summaryText, sumErr, window, hist>>

-----------------------------------------------------------------------------
(* summarizeOldMessages *)

\* faulty variant: a failed first summarization returns the recent window only
SummarizeErrorRecentOnly(p) ==
    /\ sumErr' = [sumErr EXCEPT ![p] = TRUE]
    /\ IF cursor[p] # Nil
       THEN /\ pc' = [pc EXCEPT ![p] = "reload154"]
            /\ UNCHANGED window
       ELSE /\ Returned(p, [messages |-> GetRecent(windowSize),
                            summary  |-> Nil,
                            total    |-> total[p]])
            /\ pc' = [pc EXCEPT ![p] = "route"]

\* what getConversationWindow does when summarizeOldMessages returns an error:
\* with a cursor it goes on to the reload (148-154), without one it returns
\* the full list (206-209)
SummarizeError(p) ==
    /\ sumErr' = [sumErr EXCEPT ![p] = TRUE]
    /\ IF cursor[p] # Nil
       THEN /\ pc' = [pc EXCEPT ![p] = "reload154"]
            /\ UNCHANGED window
       ELSE /\ Returned(p, [messages |-> allMsgs[p],
                            summary  |-> Nil,
                            total    |-> total[p]])
            /\ pc' = [pc EXCEPT ![p] = "route"]

\* faulty variant: the prompt leaves out the previous summary
SummarizeCallForgets(p) ==
    /\ pc[p] = "summarize"
    /\ \E v \in Variants :
           summaryText' = [summaryText EXCEPT ![p] =
               Ptr(SummaryOf(Nil, OldMsgs(allMsgs[p]), v))]
    /\ pc' = [pc EXCEPT ![p] = "update"]
    /\ UNCHANGED <<config, branches, quota, msgs, conv, clock, summary, cursor,
                   count, total, allMsgs, sumErr, window, hist>>

\* lines 249-290: read the previous summary, call the engine, get a text
SummarizeCall(p) ==
    /\ pc[p] = "summarize"
    /\ \E v \in Variants :
           summaryText' = [summaryText EXCEPT ![p] =
               Ptr(SummaryOf(GetConversationSummaryWithCursor[1], OldMsgs(allMsgs[p]), v))]
    /\ pc' = [pc EXCEPT ![p] = "update"]
    /\ UNCHANGED <<config, branches, quota, msgs, conv, clock, summary, cursor,
                   count, total, allMsgs, sumErr, window, hist>>

\* faulty variant: a failed engine call aborts the request
SummarizeCallFailsAborts(p) ==
    /\ pc[p] = "summarize"
    /\ sumErr' = [sumErr EXCEPT ![p] = TRUE]
    /\ pc' = [pc EXCEPT ![p] = "done"]
    /\ UNCHANGED <<config, branches, quota, msgs, conv, clock, summary, cursor,
                   count, total, allMsgs, summaryText, window, hist>>

\* lines 274-290: the engine call fails or returns no text
SummarizeCallFails(p) ==
    /\ pc[p] = "summarize"
    /\ SummarizeError(p)
    /\ UNCHANGED <<config, branches, quota, msgs, conv, clock, summary, cursor,
                   count, total, allMsgs, summaryText, hist>>

\* lines 292-303: store summary and cursor
UpdateSummaryWithCursor(p) ==
    /\ pc[p] = "update"
    /\ conv' = UpdateConversationSummaryWithCursor(Deref(summaryText[p]),
                                                   SummaryUpTo(OldMsgs(allMsgs[p])))
    /\ Summarized
    /\ pc' = [pc EXCEPT ![p] = IF cursor[p] # Nil THEN "reload154" ELSE "reload212"]
    /\ UNCHANGED <<config, branches, quota, msgs, clock, summary, cursor,
                   count, total, allMsgs, summaryText, sumErr, window>>

\* lines 294-296: the store rejects the update
UpdateSummaryWithCursorFails(p) ==
    /\ pc[p] = "update"
    /\ SummarizeError(p)
    /\ UNCHANGED <<config, branches, quota, msgs, conv, clock, summary, cursor,
                   count, total, allMsgs, summaryText, hist>>

-----------------------------------------------------------------------------
(* getConversationWindow, after summarizeOldMessages *)

\* lines 153-159
ReloadAfterResummarize(p) ==
    /\ pc[p] = "reload154"
    /\ summary' = [summary EXCEPT ![p] = GetConversationSummaryWithCursor[1]]
    /\ cursor' = [cursor EXCEPT ![p] = GetConversationSummaryWithCursor[2]]
    /\ pc' = [pc EXCEPT ![p] = IF conv.summary_up_to # Nil THEN "recent160" ELSE "recent169"]
    /\ UNCHANGED <<config, branches, quota, msgs, conv, clock,
                   count, total, allMsgs, summaryText, sumErr, window, hist>>

\* lines 159-165
GetRecentSinceAfterResummarize(p) ==
    /\ pc[p] = "recent160"
    /\ LET recentMsgs == GetRecentSince(Deref(cursor[p]), windowSize)
       IN  Returned(p, [messages |-> recentMsgs,
                        summary  |-> summary[p],
                        total    |-> Len(recentMsgs)])
    /\ pc' = [pc EXCEPT ![p] = "route"]
    /\ UNCHANGED <<config, branches, quota, msgs, conv, clock, summary, cursor,
                   count, total, allMsgs, summaryText, sumErr, hist>>

\* lines 211-217
ReloadAfterFirstSummarize(p) ==
    /\ pc[p] = "reload212"
    /\ summary' = [summary EXCEPT ![p] = GetConversationSummaryWithCursor[1]]
    /\ cursor' = [cursor EXCEPT ![p] = GetConversationSummaryWithCursor[2]]
    /\ pc' = [pc EXCEPT ![p] = "recent218"]
    /\ UNCHANGED <<config, branches, quota, msgs, conv, clock,
                   count, total, allMsgs, summaryText, sumErr, window, hist>>

\* lines 217-230
GetRecentSinceAfterFirstSummarize(p) ==
    /\ pc[p] = "recent218"
    /\ IF cursor[p] # Nil
       THEN LET recentMsgs == GetRecentSince(Deref(cursor[p]), windowSize)
            IN  Returned(p, [messages |-> recentMsgs,
                             summary  |-> summary[p],
                             total    |-> Len(recentMsgs)])
       ELSE Returned(p, [messages |-> GetRecent(windowSize),
                         summary  |-> summary[p],
                         total    |-> total[p]])
    /\ pc' = [pc EXCEPT ![p] = "route"]
    /\ UNCHANGED <<config, branches, quota, msgs, conv, clock, summary, cursor,
                   count, total, allMsgs, summaryText, sumErr, hist>>

-----------------------------------------------------------------------------
(* detectIntent (intent.go) *)

\* NOW() of the next insert: strictly later than that of the previous one
Ticks == {clock + ClockStep}

\* lines 21-30: store the user's message
StoreUserMessage(p) ==
    /\ pc[p] = "route"
    /\ Room
    /\ \E t \in Ticks :
           /\ msgs' = CreateMessage("user", t)
           /\ clock' = t
    /\ Handed(p)
    /\ pc' = [pc EXCEPT ![p] = "respond"]
    /\ UNCHANGED <<config, branches, quota, conv, locals>>

\* lines 28-30: the store rejects the user's message
StoreUserMessageFails(p) ==
    /\ pc[p] = "route"
    /\ Handed(p)
    /\ pc' = [pc EXCEPT ![p] = "done"]
    /\ UNCHANGED <<config, branches, quota, msgs, conv, clock, locals>>

\* lines 75-78, 126, 171-173: the engine call fails or carries no response
\* content, or the store rejects the assistant's message
DetectFails(p) ==
    /\ pc[p] = "respond"
    /\ pc' = [pc EXCEPT ![p] = "done"]
    /\ UNCHANGED <<config, branches, quota, msgs, conv, clock, locals, hist>>

\* lines 164-173, 191-199: store the assistant's message
StoreAssistantMessage(p) ==
    /\ pc[p] = "respond"
    /\ Room
    /\ \E t \in Ticks :
           /\ msgs' = CreateMessage("assistant", t)
           /\ clock' = t
    /\ pc' = [pc EXCEPT ![p] = "done"]
    /\ UNCHANGED <<config, branches, quota, conv, locals, hist>>

\* ProcessMessage returns; the worker's locals die
Return(p) ==
    /\ pc[p] = "done"
    /\ pc' = [pc EXCEPT ![p] = "idle"]
    /\ summary' = [summary EXCEPT ![p] = Nil]
    /\ cursor' = [cursor EXCEPT ![p] = Nil]
    /\ count' = [count EXCEPT ![p] = 0]
    /\ total' = [total EXCEPT ![p] = 0]
    /\ allMsgs' = [allMsgs EXCEPT ![p] = <<>>]
    /\ summaryText' = [summaryText EXCEPT ![p] = Nil]
    /\ sumErr' = [sumErr EXCEPT ![p] = FALSE]
    /\ window' = [window EXCEPT ![p] = NoWindow]
    /\ UNCHANGED <<config, branches, quota, msgs, conv, clock, hist>>

-----------------------------------------------------------------------------
Step(p) ==
    \/ ProcessMessage(p)
    \/ GetSummaryWithCursor(p)
    \/ CountSince(p)
    \/ GetSinceReturn(p)
    \/ GetSinceForSummarize(p)
    \/ GetRecentSinceBetween(p)
    \/ CountByConversationID(p)
    \/ GetByConversationIDReturn(p)
    \/ GetByConversationIDForSummarize(p)
    \/ SummarizeCall(p)
    \/ SummarizeCallFails(p)
    \/ UpdateSummaryWithCursor(p)
    \/ UpdateSummaryWithCursorFails(p)
    \/ ReloadAfterResummarize(p)
    \/ GetRecentSinceAfterResummarize(p)
    \/ ReloadAfterFirstSummarize(p)
    \/ GetRecentSinceAfterFirstSummarize(p)
    \/ StoreUserMessage(p)
    \/ StoreUserMessageFails(p)
    \/ DetectFails(p)
    \/ StoreAssistantMessage(p)
    \/ Return(p)

Next == \E p \in Procs : Step(p)

\* overlapping requests
Spec == Init /\ [][Next]_vars

\* overlapping requests, a longer conversation
SpecLong == InitLong /\ [][Next]_vars

\* one request at a time
SpecSeq == InitSeq /\ [][Next]_vars

-----------------------------------------------------------------------------
(* Properties *)

\* the messages a summary text accounts for
Folded(s) == IF s = Nil THEN {} ELSE Deref(s).folded

\* getConversationWindow has just returned to ProcessMessage
WindowReturned(p) == pc[p] = "route"

\* C1: for every window getConversationWindow returns, every message stored
\* in the conversation at the call is in the window's message list or has
\* been folded into the summary the window carries.
C1_NoMessageDropped ==
    \A p \in SeqProcs :
        WindowReturned(p) =>
            \A i \in DOMAIN msgs :
                msgs[i].id \in Ids(window[p].messages) \cup Folded(window[p].summary)

\* C2: in every execution, overlapping requests included, the stored
\* summary_up_to never changes to an earlier timestamp.
C2_CursorNeverDecreases ==
    [][conv.summary_up_to # Nil =>
          /\ conv'.summary_up_to # Nil
          /\ Deref(conv'.summary_up_to) >= Deref(conv.summary_up_to)]_vars

\* C3: in every reachable state, every message created at or before the
\* stored cursor has been folded into the stored summary.
C3_CursorCoveredBySummary ==
    conv.summary_up_to # Nil =>
        \A i \in DOMAIN msgs :
            msgs[i].created_at <= Deref(conv.summary_up_to)
                => msgs[i].id \in Folded(conv.summary)

\* the request of p has run summarizeOldMessages and its write has landed
Wrote(p) ==
    /\ pc[p] \in {"reload154", "reload212", "recent160", "recent218",
                  "route", "respond", "done"}
    /\ summaryText[p] # Nil
    /\ ~sumErr[p]

\* the (summary, cursor) pair that write stored, the summary taken up to the
\* engine's wording: what it folds and the newest message of its prompt
Written(p) ==
    <<Deref(summaryText[p]).folded, Deref(summaryText[p]).last,
      SummaryUpTo(OldMsgs(allMsgs[p]))>>

\* The cursor is later than the one the request of p read when it started.
\* Cursors are timestamps of messages and the list of p holds every message
\* after the cursor p started from, so this is: not before the list's head.
LaterThanAtStart(p) ==
    /\ conv.summary_up_to # Nil
    /\ Deref(conv.summary_up_to) >= allMsgs[p][1].created_at

\* C4: when two overlapping requests both run summarization, after both
\* writes the stored (summary, cursor) pair is the same whichever landed
\* last, and the cursor is later than before the two requests started.
C4_RaceIdempotent ==
    \A p, q \in Procs :
        (p # q /\ Wrote(p) /\ Wrote(q)) =>
            /\ Written(p) = Written(q)
            /\ LaterThanAtStart(p) /\ LaterThanAtStart(q)

\* a summary and a cursor that one summarization wrote: both absent, or both
\* present with the cursor on the newest message of the summary's prompt
Together(s, c) ==
    /\ (s = Nil) = (c = Nil)
    /\ s # Nil => Deref(c) = msgs[Deref(s).last].created_at

\* C5: summary and cursor are stored and read together: in every reachable
\* state the stored pair, and every pair a worker has read, is both absent or
\* both present and written by the same summarization.
C5_SummaryAndCursorTogether ==
    /\ Together(conv.summary, conv.summary_up_to)
    /\ \A p \in Procs : Together(summary[p], cursor[p])
    /\ \A p \in Procs : window[p].summary # Nil => window[p].summary = summary[p]

\* a worker holds the pair of one summarization while the store holds another's
C5_Witness ==
    \E p \in Procs :
        /\ summary[p] # Nil /\ cursor[p] # Nil
        /\ conv.summary # Nil
        /\ conv.summary # summary[p]

\* the window returned now and the one returned before it, with no message
\* stored in between
SameWindowAgain(p) ==
    /\ window[p].messages = hist.win.messages
    /\ window[p].summary = hist.win.summary

C7_NoResummarizeBeforeTrigger ==
    \A p \in SeqProcs :
        (pc[p] = "summarize" /\ hist.sumLen >= 0) =>
            Len(msgs) - hist.sumLen >= summarizeTrigger - windowSize + 1

\* the engine is about to be called for a second summarization
C7_Witness == pc[1] = "summarize" /\ hist.sumLen >= 0

\* summarizeOldMessages has just stored its summary
JustSummarized(p) ==
    /\ pc[p] \in {"reload154", "reload212"}
    /\ summaryText[p] # Nil
    /\ ~sumErr[p]

\* C8: after a successful summarization over a list of n messages, with no
\* concurrent writes, the stored cursor is the creation timestamp of the
\* (n - windowSize)-th message of the list, and exactly windowSize messages
\* are after it.
C8_CursorOnLastSummarized ==
    \A p \in SeqProcs :
        JustSummarized(p) =>
            /\ conv.summary_up_to =
                   Ptr(allMsgs[p][Len(allMsgs[p]) - windowSize].created_at)
            /\ CountMessagesSince(Deref(conv.summary_up_to)) = windowSize

\* a repeated summarization has just stored its summary
C8_Witness == JustSummarized(1) /\ pc[1] = "reload154"

\* ProcessMessage is about to return
Returning(p) == pc[p] = "done"

\* the (n)-th message of the conversation was created at the stored cursor
CursorOnMessage(n) ==
    /\ conv.summary # Nil
    /\ conv.summary_up_to = Ptr(msgs[n].created_at)

\* C9 as claimed: with no cursor, the ProcessMessage call whose stored
\* messages push the total past summarizeTrigger summarizes, so that when it
\* returns the summary is set and the cursor is on the (total - windowSize)-th
\* message.
C9_PushingCallSummarizes ==
    \A p \in SeqProcs :
        (/\ Returning(p)
         /\ cursor[p] = Nil
         /\ total[p] <= summarizeTrigger
         /\ Len(msgs) > summarizeTrigger)
            => CursorOnMessage(Len(msgs) - windowSize)

\* C9: with no cursor, the call whose stored messages push the total past
\* summarizeTrigger returns with no summary stored; a call that begins with
\* no cursor and total > summarizeTrigger summarizes while computing its
\* window, and when that summarization succeeds the call returns with the
\* summary set and the cursor on the (total - windowSize)-th message, total
\* being the count when the call began.
C9_CallAfterPushSummarizes ==
    \A p \in SeqProcs :
        /\ (Returning(p) /\ cursor[p] = Nil /\ total[p] <= summarizeTrigger)
               => (conv.summary = Nil /\ conv.summary_up_to = Nil)
        /\ (Returning(p) /\ total[p] > summarizeTrigger /\ ~sumErr[p])
               => CursorOnMessage(total[p] - windowSize)

\* a call that began past the trigger returns after storing its own messages
C9_Witness ==
    /\ Returning(1)
    /\ total[1] > summarizeTrigger /\ ~sumErr[1]
    /\ Len(msgs) > total[1]

\* C10: with no cursor and total > summarizeTrigger, when summarization fails
\* getConversationWindow still returns, with every message of the
\* conversation and no summary, and the stored summary and cursor stay as
\* they were.
C10_FailedFirstSummarizationDegrades ==
    \A p \in SeqProcs :
        (WindowReturned(p) /\ sumErr[p] /\ cursor[p] = Nil) =>
            /\ total[p] > summarizeTrigger
            /\ window[p].messages = GetMessagesByConversationID
            /\ window[p].summary = Nil
            /\ conv.summary = Nil /\ conv.summary_up_to = Nil

\* the first summarization got a text from the engine and the store refused it
C10_Witness ==
    /\ WindowReturned(1)
    /\ sumErr[1] /\ cursor[1] = Nil
    /\ summaryText[1] # Nil

-----------------------------------------------------------------------------
(* The turn: SendMessage, ProcessMessage and its three branches.  One      *)
(* request at a time; the conversation stays below the summarization       *)
(* trigger, so getConversationWindow returns every message.                *)

TurnConfigs == {<<MaxTurnMsgs, MaxTurnMsgs + 1>>}

Turns ==
    /\ \E c \in TurnConfigs : windowSize = c[1] /\ summarizeTrigger = c[2]
    /\ workers = SeqProcs
    /\ cap = MaxTurnMsgs
    /\ quota = [p \in Procs |-> IF p \in SeqProcs THEN MaxTurns ELSE 0]
    /\ Start

\* any request; the engine does not call update_memory
InitTurn ==
    /\ env = [ requests |-> DetectRequests \cup BuildRequests
                                \cup ConfirmRequests(ActionResults)
                                \cup StrayRequests,
               calls    |-> {[kind |-> "none", len |-> 0, text |-> ""]},
               suggestions |-> 0..MaxSuggestions ]
    /\ archived = FALSE
    /\ Turns

\* faulty variant: the owner is not compared
GetConversationByIDAnyOwner(id, publicKey) ==
    id = "c1" /\ ~archived

\* GetConversationByID: WHERE id = $1 AND public_key = $2 AND archived_at IS NULL
GetConversationByID(id, publicKey) ==
    id = "c1" /\ publicKey = Owner /\ ~archived

\* CreateMessage with the columns the branches fill in
CreateMessageOf(role, content, contentType, t) ==
    Append(msgs, [id           |-> Len(msgs) + 1,
                  role         |-> role,
                  created_at   |-> t,
                  content      |-> content,
                  content_type |-> contentType])

\* anthropicMessagesFromWindow
anthropicMessagesFromWindow(w) ==
    LET kept == SelectSeq(w.messages, LAMBDA m : m.role # "system")
    IN  [i \in DOMAIN kept |-> [role |-> kept[i].role, content |-> kept[i].content]]

\* the stores a turn may write
Stores ==
    [ msgs |-> msgs, conv |-> conv, title |-> title, memory |-> memory,
      cache |-> cache ]

\* SendMessage answers: the turn is over
Answer(p, r) ==
    /\ result' = [result EXCEPT ![p] = r]
    /\ pc' = [pc EXCEPT ![p] = "done"]

\* message.go lines 45-51: ProcessMessage returned err
ErrorResponse(p, err) ==
    IF err = "conversation not found"
    THEN [result[p] EXCEPT !.status = 404, !.error = "conversation not found",
                           !.cause = err]
    ELSE [result[p] EXCEPT !.status = 500, !.error = "failed to process message",
                           !.cause = err]

\* a branch returns err to SendMessage
Failure(p, err) == Answer(p, ErrorResponse(p, err))

\* msgRepo.Create succeeds: the row is stored with the store's NOW()
Created(role, content, contentType) ==
    /\ Room
    /\ \E t \in Ticks :
        /\ msgs' = CreateMessageOf(role, content, contentType, t)
        /\ clock' = t

\* faulty variant: archiving removes the conversation's messages
DeleteConversationCascade(p) ==
    /\ p \in workers
    /\ pc[p] = "idle"
    /\ ~archived
    /\ archived' = TRUE
    /\ msgs' = <<>>
    /\ UNCHANGED <<config, quota, conv, clock, pc, locals, hist, title, req,
                   resp, sent, memory, cache, now, minted, result, began, last>>

\* DeleteConversation, ArchiveConversation: the owner archives the
\* conversation between two turns
DeleteConversation(p) ==
    /\ p \in workers
    /\ pc[p] = "idle"
    /\ ~archived
    /\ archived' = TRUE
    /\ UNCHANGED <<config, quota, msgs, conv, clock, pc, locals, hist, title, req,
                   resp, sent, memory, cache, now, minted, result, began, last>>

\* message.go lines 15-51 and ProcessMessage lines 77-85: a request arrives,
\* is validated, and the conversation is looked up
SendMessage(p) ==
    /\ p \in workers
    /\ quota[p] # 0
    /\ pc[p] = "idle"
    /\ quota' = [quota EXCEPT ![p] = IF @ > 0 THEN @ - 1 ELSE @]
    /\ began' = Ptr(Stores)
    /\ \E r \in env.requests :
        /\ req' = [req EXCEPT ![p] = r]
        /\ IF r.content = "" /\ r.selected_suggestion_id = Nil /\ r.action_result = Nil
           THEN Answer(p, [NoResult EXCEPT
                              !.status = 400,
                              !.error = "content, selected_suggestion_id, or action_result is required"])
           ELSE IF ~GetConversationByID(r.conversation_id, r.public_key)
           THEN Answer(p, [NoResult EXCEPT !.status = 404,
                                           !.error = "conversation not found",
                                           !.cause = "conversation not found"])
           ELSE /\ pc' = [pc EXCEPT ![p] = "getSummary"]
                /\ UNCHANGED result
    /\ UNCHANGED <<config, msgs, conv, clock, locals, hist, archived, title, resp,
                   sent, memory, cache, now, minted, last>>

\* faulty variant: the selected suggestion is looked at first
RouteSuggestionFirst(p) ==
    /\ pc[p] = "route"
    /\ LET branch == IF req[p].selected_suggestion_id # Nil THEN "build"
                     ELSE IF req[p].action_result # Nil THEN "confirm"
                     ELSE "detect"
       IN  /\ pc' = [pc EXCEPT ![p] = branch]
           /\ result' = [result EXCEPT ![p].branch = branch]
    /\ UNCHANGED <<config, quota, msgs, conv, clock, locals, hist, archived, title,
                   req, resp, sent, memory, cache, now, minted, began, last>>

\* ProcessMessage lines 93-104: the switch on the request
Route(p) ==
    /\ pc[p] = "route"
    /\ LET branch == IF req[p].action_result # Nil THEN "confirm"
                     ELSE IF req[p].selected_suggestion_id # Nil THEN "build"
                     ELSE "detect"
       IN  /\ pc' = [pc EXCEPT ![p] = branch]
           /\ result' = [result EXCEPT ![p].branch = branch]
    /\ UNCHANGED <<config, quota, msgs, conv, clock, locals, hist, archived, title,
                   req, resp, sent, memory, cache, now, minted, began, last>>

-----------------------------------------------------------------------------
(* User memory: persistMemoryUpdate / extractMemoryUpdate *)

\* extractMemoryUpdate: the parsed update_memory input, nil when absent or
\* unparsable
extractMemoryUpdate(r) ==
    IF r.memory.kind # "ok"
    THEN Nil
    ELSE Ptr([content |-> [len |-> r.memory.len, text |-> r.memory.text]])

\* UpsertMemory: the whole document is replaced
UpsertMemory(publicKey, content) ==
    [memory EXCEPT ![publicKey] = Ptr(content)]

\* faulty variant: the size of the update is not checked
persistMemoryUpdateUnchecked(publicKey, mu) ==
    IF mu = Nil
    THEN UNCHANGED memory
    ELSE \/ memory' = UpsertMemory(publicKey, Deref(mu).content)
         \/ UNCHANGED memory

\* persistMemoryUpdate, and lines 89-107 of confirmAction: nothing to write,
\* update over the cap rejected, update written, or write failed (logged)
persistMemoryUpdate(publicKey, mu) ==
    IF mu = Nil
    THEN UNCHANGED memory
    ELSE IF Deref(mu).content.len > maxMemoryBytes
    THEN UNCHANGED memory
    ELSE \/ memory' = UpsertMemory(publicKey, Deref(mu).content)
         \/ UNCHANGED memory

-----------------------------------------------------------------------------
(* The cache: suggestions and the pending build *)

\* redis SET with a TTL
Entry(value, ttl) == Ptr([value |-> value, expires |-> now + ttl])

\* redis GET: the value while the key has not expired, else redis.Nil
RedisGet(entry) ==
    IF entry # Nil /\ now < Deref(entry).expires
    THEN Ptr(Deref(entry).value)
    ELSE Nil

\* time passes
Tick ==
    /\ now < MaxTime
    /\ now' = now + 1
    /\ UNCHANGED <<config, quota, msgs, conv, clock, pc, locals, hist, archived,
                   title, req, resp, sent, memory, cache, minted, result, began,
                   last>>

-----------------------------------------------------------------------------
(* Detect: detectIntent *)

\* the responses the engine may give to a Detect call
DetectResponses ==
    {r \in Responses : /\ r.memory \in env.calls
                       /\ r.suggestions \in env.suggestions
                       /\ r.tool # "ok" => r.suggestions = 0
                       /\ r.suggestions <= MaxSuggestions - Len(minted)}

\* lines 21-30: the user's message is stored, or the store rejects it
DetectStoreUser(p) ==
    /\ pc[p] = "detect"
    /\ \/ /\ Created("user", req[p].content, "text")
          /\ pc' = [pc EXCEPT ![p] = "detectCall"]
          /\ UNCHANGED result
       \/ /\ Failure(p, "store user message")
          /\ UNCHANGED <<msgs, clock>>
    /\ UNCHANGED <<config, quota, conv, locals, hist, archived, title, req, resp,
                   sent, memory, cache, now, minted, began, last>>

\* faulty variant: a failed engine call is tried once more
DetectCallRetriesOnce(p) ==
    /\ pc[p] = "detectCall"
    /\ sent' = [sent EXCEPT ![p] =
                   Append(@, Append(anthropicMessagesFromWindow(window[p]),
                                    [role |-> "user", content |-> req[p].content]))]
    /\ \/ /\ \E r \in DetectResponses : resp' = [resp EXCEPT ![p] = r]
          /\ pc' = [pc EXCEPT ![p] = "detectMemory"]
          /\ UNCHANGED result
       \/ /\ IF sent[p] = <<>>
             THEN UNCHANGED <<pc, result>>
             ELSE Failure(p, "call anthropic")
          /\ UNCHANGED resp
    /\ UNCHANGED <<config, quota, msgs, conv, clock, locals, hist, archived, title,
                   req, memory, cache, now, minted, began, last>>

\* lines 53-78: the window's messages and the user's text go to the engine
DetectCall(p) ==
    /\ pc[p] = "detectCall"
    /\ sent' = [sent EXCEPT ![p] =
                   Append(@, Append(anthropicMessagesFromWindow(window[p]),
                                    [role |-> "user", content |-> req[p].content]))]
    /\ \/ /\ \E r \in DetectResponses : resp' = [resp EXCEPT ![p] = r]
          /\ pc' = [pc EXCEPT ![p] = "detectMemory"]
          /\ UNCHANGED result
       \/ /\ Failure(p, "call anthropic")
          /\ UNCHANGED resp
    /\ UNCHANGED <<config, quota, msgs, conv, clock, locals, hist, archived, title,
                   req, memory, cache, now, minted, began, last>>

\* faulty variant: an update_memory input that does not parse fails the turn
DetectPersistMemoryStrict(p) ==
    /\ pc[p] = "detectMemory"
    /\ IF resp[p].memory.kind = "bad"
       THEN /\ Failure(p, "parse memory update")
            /\ UNCHANGED memory
       ELSE /\ persistMemoryUpdate(req[p].public_key, extractMemoryUpdate(resp[p]))
            /\ pc' = [pc EXCEPT ![p] = "detectRespond"]
            /\ UNCHANGED result
    /\ UNCHANGED <<config, quota, msgs, conv, clock, locals, hist, archived, title,
                   req, resp, sent, cache, now, minted, began, last>>

\* lines 113-114
DetectPersistMemory(p) ==
    /\ pc[p] = "detectMemory"
    /\ persistMemoryUpdate(req[p].public_key, extractMemoryUpdate(resp[p]))
    /\ pc' = [pc EXCEPT ![p] = "detectRespond"]
    /\ UNCHANGED <<config, quota, msgs, conv, clock, locals, hist, archived, title,
                   req, resp, sent, cache, now, minted, result, began, last>>

\* buildIntentResponse: every suggestion gets a fresh id and is written to
\* the cache (a failed write is logged); the assistant message is stored;
\* the title is set on the first exchange (a failed update is logged)
DetectRespond(p) ==
    /\ pc[p] = "detectRespond"
    /\ resp[p].tool = "ok"
    /\ LET ids == (Len(minted) + 1)..(Len(minted) + resp[p].suggestions)
           Minted(returned) ==
               [i \in 1..(Len(minted) + resp[p].suggestions) |->
                   IF i \in ids THEN [at |-> now, returned |-> returned]
                                ELSE minted[i]]
       IN  /\ \E written \in SUBSET ids :
                cache' = [cache EXCEPT !.suggestion =
                             [i \in SuggIds |-> IF i \in written
                                                THEN Entry(i, suggestionTTL)
                                                ELSE @[i]]]
           /\ \/ /\ Created("assistant", "response", "text")
                 /\ \/ title' = IF window[p].total <= 2
                                THEN Ptr(truncateTitle(req[p].content))
                                ELSE title
                    \/ UNCHANGED title
                 /\ minted' = Minted(TRUE)
                 /\ Answer(p, [result[p] EXCEPT !.status = 200,
                                                !.message = Len(msgs) + 1,
                                                !.suggestions = ids])
              \/ /\ Failure(p, "store assistant message")
                 /\ minted' = Minted(FALSE)
                 /\ UNCHANGED <<msgs, clock, title>>
    /\ UNCHANGED <<config, quota, conv, locals, hist, archived, req, resp, sent,
                   memory, now, began, last>>

\* lines 121-124, buildIntentResponseFromText: no tool output, a text block
DetectTextFallback(p) ==
    /\ pc[p] = "detectRespond"
    /\ resp[p].tool # "ok"
    /\ resp[p].text
    /\ \/ /\ Created("assistant", "text", "text")
          /\ Answer(p, [result[p] EXCEPT !.status = 200, !.message = Len(msgs) + 1])
       \/ /\ Failure(p, "store assistant message")
          /\ UNCHANGED <<msgs, clock>>
    /\ UNCHANGED <<config, quota, conv, locals, hist, archived, title, req, resp,
                   sent, memory, cache, now, minted, began, last>>

\* line 126: neither tool output nor text
DetectNoContent(p) ==
    /\ pc[p] = "detectRespond"
    /\ resp[p].tool # "ok"
    /\ ~resp[p].text
    /\ Failure(p, "no response content from Claude")
    /\ UNCHANGED <<config, quota, msgs, conv, clock, locals, hist, archived, title,
                   req, resp, sent, memory, cache, now, minted, began, last>>

-----------------------------------------------------------------------------
(* Build: buildPolicy, called by ProcessMessage or by confirmAction *)

\* confirmAction called buildPolicy (auto-continue)
AutoContinued(p) == result[p].branch = "confirm"

\* buildPolicy returns err: SendMessage answers the failure, or
\* confirmAction logs it and answers with its own message (lines 132-143)
BuildFails(p, err) ==
    IF AutoContinued(p)
    THEN Answer(p, [result[p] EXCEPT !.status = 200])
    ELSE Failure(p, err)

\* buildPolicy returns a response: SendMessage answers it, or confirmAction
\* answers it with its own message put into it (lines 135-136)
BuildReturns(p, payload, id) ==
    IF AutoContinued(p)
    THEN Answer(p, [result[p] EXCEPT !.status = 200, !.payload = payload])
    ELSE Answer(p, [result[p] EXCEPT !.status = 200, !.payload = payload,
                                     !.message = id])

\* the responses the engine may give to a Build or a Confirm call
ToolResponses == {r \in Responses : r.memory \in env.calls /\ r.suggestions = 0}

\* lines 39-48: the suggestion is looked up in the cache
BuildLookup(p) ==
    /\ pc[p] = "build"
    /\ IF RedisGet(cache.suggestion[Deref(req[p].selected_suggestion_id)]) = Nil
       THEN BuildFails(p, "suggestion not found or expired")
       ELSE /\ pc' = [pc EXCEPT ![p] = "buildCheck"]
            /\ UNCHANGED result
    /\ UNCHANGED <<config, quota, msgs, conv, clock, locals, hist, archived, title,
                   req, resp, sent, memory, cache, now, minted, began, last>>

\* faulty variant: a plugin that is not known to be installed counts as
\* missing
BuildCheckInstalledStrict(p) ==
    /\ pc[p] = "buildCheck"
    /\ \E verdict \in {"installed", "missing", "error"} :
        pc' = [pc EXCEPT ![p] = IF req[p].access_token /\ verdict = "installed"
                                THEN "buildSchema"
                                ELSE "installRequired"]
    /\ UNCHANGED <<config, quota, msgs, conv, clock, locals, hist, archived, title,
                   req, resp, sent, memory, cache, now, minted, result, began,
                   last>>

\* lines 55-65: with an access token the verifier is asked whether the plugin
\* is installed
BuildCheckInstalled(p) ==
    /\ pc[p] = "buildCheck"
    /\ \E verdict \in {"installed", "missing", "error"} :
        pc' = [pc EXCEPT ![p] = IF ~req[p].access_token \/ verdict = "installed"
                                THEN "buildSchema"
                                ELSE IF verdict = "missing" THEN "installRequired"
                                ELSE "checkFailed"]
    /\ UNCHANGED <<config, quota, msgs, conv, clock, locals, hist, archived, title,
                   req, resp, sent, memory, cache, now, minted, result, began,
                   last>>

\* lines 58-60: the verifier's error is logged and the build goes on
BuildCheckFailed(p) ==
    /\ pc[p] = "checkFailed"
    /\ pc' = [pc EXCEPT ![p] = "buildSchema"]
    /\ UNCHANGED <<config, quota, msgs, conv, clock, locals, hist, archived, title,
                   req, resp, sent, memory, cache, now, minted, result, began,
                   last>>

\* handleInstallRequired: the pending build is written to the cache (a
\* failed write is logged) and the assistant message is stored
HandleInstallRequired(p) ==
    /\ pc[p] = "installRequired"
    /\ \/ cache' = [cache EXCEPT !.pending_build =
                       Entry(Deref(req[p].selected_suggestion_id), suggestionTTL)]
       \/ UNCHANGED cache
    /\ \/ /\ Created("assistant", "install", "text")
          /\ BuildReturns(p, "install_required", Len(msgs) + 1)
       \/ /\ BuildFails(p, "store message")
          /\ UNCHANGED <<msgs, clock>>
    /\ UNCHANGED <<config, quota, conv, locals, hist, archived, title, req, resp,
                   sent, memory, now, minted, began, last>>

\* lines 67-71: the recipe schema is fetched from the verifier
BuildSchema(p) ==
    /\ pc[p] = "buildSchema"
    /\ \/ /\ pc' = [pc EXCEPT ![p] = "buildCall"]
          /\ UNCHANGED result
       \/ BuildFails(p, "get recipe schema")
    /\ UNCHANGED <<config, quota, msgs, conv, clock, locals, hist, archived, title,
                   req, resp, sent, memory, cache, now, minted, began, last>>

\* lines 96-119: the window's messages go to the engine; build_policy is
\* parsed from the response
BuildCall(p) ==
    /\ pc[p] = "buildCall"
    /\ sent' = [sent EXCEPT ![p] = Append(@, anthropicMessagesFromWindow(window[p]))]
    /\ \/ \E r \in ToolResponses :
            /\ resp' = [resp EXCEPT ![p] = r]
            /\ IF r.tool = "ok"
               THEN /\ pc' = [pc EXCEPT ![p] = "buildSuggest"]
                    /\ UNCHANGED result
               ELSE BuildFails(p, "parse policy response")
       \/ /\ BuildFails(p, "call anthropic")
          /\ UNCHANGED resp
    /\ UNCHANGED <<config, quota, msgs, conv, clock, locals, hist, archived, title,
                   req, memory, cache, now, minted, began, last>>

\* lines 125-165: the verifier's suggest endpoint, then the assistant message
BuildSuggest(p) ==
    /\ pc[p] = "buildSuggest"
    /\ \/ /\ Created("assistant", "policy", "text")
          /\ BuildReturns(p, "policy_ready", Len(msgs) + 1)
       \/ /\ BuildFails(p, "get policy suggest")
          /\ UNCHANGED <<msgs, clock>>
       \/ /\ BuildFails(p, "store assistant message")
          /\ UNCHANGED <<msgs, clock>>
    /\ UNCHANGED <<config, quota, conv, locals, hist, archived, title, req, resp,
                   sent, memory, cache, now, minted, began, last>>

-----------------------------------------------------------------------------
(* Confirm: confirmAction *)

\* buildActionResultMessage, for a result that carries no error text
buildActionResultMessage(a) ==
    IF a.success
    THEN "[Action completed: " \o a.action \o " was successful]"
    ELSE "[Action failed: " \o a.action \o " was not successful]"

\* lines 55-64: the synthetic user message is stored, or the store rejects it
ConfirmStoreUser(p) ==
    /\ pc[p] = "confirm"
    /\ \/ /\ Created("user", buildActionResultMessage(Deref(req[p].action_result)),
                     "action_result")
          /\ pc' = [pc EXCEPT ![p] = "confirmCall"]
          /\ UNCHANGED result
       \/ /\ Failure(p, "store user message")
          /\ UNCHANGED <<msgs, clock>>
    /\ UNCHANGED <<config, quota, conv, locals, hist, archived, title, req, resp,
                   sent, memory, cache, now, minted, began, last>>

\* lines 45-53, 66-87: the window's messages and the synthetic message go to
\* the engine; confirm_action is parsed from the response
ConfirmCall(p) ==
    /\ pc[p] = "confirmCall"
    /\ sent' = [sent EXCEPT ![p] =
                   Append(@, Append(anthropicMessagesFromWindow(window[p]),
                                    [role    |-> "user",
                                     content |-> buildActionResultMessage(
                                                     Deref(req[p].action_result))]))]
    /\ \/ \E r \in ToolResponses :
            /\ resp' = [resp EXCEPT ![p] = r]
            /\ IF r.tool = "ok"
               THEN /\ pc' = [pc EXCEPT ![p] = "confirmMemory"]
                    /\ UNCHANGED result
               ELSE Failure(p, "parse confirm response")
       \/ /\ Failure(p, "call anthropic")
          /\ UNCHANGED resp
    /\ UNCHANGED <<config, quota, msgs, conv, clock, locals, hist, archived, title,
                   req, memory, cache, now, minted, began, last>>

\* lines 89-107
ConfirmPersistMemory(p) ==
    /\ pc[p] = "confirmMemory"
    /\ persistMemoryUpdate(req[p].public_key, extractMemoryUpdate(resp[p]))
    /\ pc' = [pc EXCEPT ![p] = "confirmStore"]
    /\ UNCHANGED <<config, quota, msgs, conv, clock, locals, hist, archived, title,
                   req, resp, sent, cache, now, minted, result, began, last>>

\* faulty variant: a failed install_plugin goes on to the pending build too
ConfirmStoreAssistantAnyInstall(p) ==
    /\ pc[p] = "confirmStore"
    /\ \/ /\ Created("assistant", "response", "text")
          /\ LET a == Deref(req[p].action_result)
                 r == [result[p] EXCEPT !.message = Len(msgs) + 1]
             IN  IF a.action = "install_plugin"
                 THEN /\ result' = [result EXCEPT ![p] = r]
                      /\ pc' = [pc EXCEPT ![p] = "autoContinue"]
                 ELSE Answer(p, [r EXCEPT !.status = 200])
       \/ /\ Failure(p, "store assistant message")
          /\ UNCHANGED <<msgs, clock>>
    /\ UNCHANGED <<config, quota, conv, locals, hist, archived, title, req, resp,
                   sent, memory, cache, now, minted, began, last>>

\* lines 109-121, 141-143: the assistant message is stored; a successful
\* install_plugin goes on to the pending build
ConfirmStoreAssistant(p) ==
    /\ pc[p] = "confirmStore"
    /\ \/ /\ Created("assistant", "response", "text")
          /\ LET a == Deref(req[p].action_result)
                 r == [result[p] EXCEPT !.message = Len(msgs) + 1]
             IN  IF a.action = "install_plugin" /\ a.success
                 THEN /\ result' = [result EXCEPT ![p] = r]
                      /\ pc' = [pc EXCEPT ![p] = "autoContinue"]
                 ELSE Answer(p, [r EXCEPT !.status = 200])
       \/ /\ Failure(p, "store assistant message")
          /\ UNCHANGED <<msgs, clock>>
    /\ UNCHANGED <<config, quota, conv, locals, hist, archived, title, req, resp,
                   sent, memory, cache, now, minted, began, last>>

\* lines 122-124: the pending build is read from the cache
ConfirmAutoContinue(p) ==
    /\ pc[p] = "autoContinue"
    /\ LET suggID == RedisGet(cache.pending_build)
       IN  IF suggID = Nil
           THEN /\ Answer(p, [result[p] EXCEPT !.status = 200])
                /\ UNCHANGED req
           ELSE /\ req' = [req EXCEPT ![p].selected_suggestion_id = suggID,
                                      ![p].action_result = Nil]
                /\ pc' = [pc EXCEPT ![p] = "deletePending"]
                /\ UNCHANGED result
    /\ UNCHANGED <<config, quota, msgs, conv, clock, locals, hist, archived, title,
                   resp, sent, memory, cache, now, minted, began, last>>

\* faulty variant: the resumed build goes through ProcessMessage again
ConfirmDeletePendingReenters(p) ==
    /\ pc[p] = "deletePending"
    /\ \/ cache' = [cache EXCEPT !.pending_build = Nil]
       \/ UNCHANGED cache
    /\ pc' = [pc EXCEPT ![p] = "getSummary"]
    /\ UNCHANGED <<config, quota, msgs, conv, clock, locals, hist, archived, title,
                   req, resp, sent, memory, now, minted, result, began, last>>

\* lines 125-131: the pending build is deleted (a failed delete is ignored)
\* and buildPolicy is called for its suggestion
ConfirmDeletePending(p) ==
    /\ pc[p] = "deletePending"
    /\ \/ cache' = [cache EXCEPT !.pending_build = Nil]
       \/ UNCHANGED cache
    /\ pc' = [pc EXCEPT ![p] = "build"]
    /\ UNCHANGED <<config, quota, msgs, conv, clock, locals, hist, archived, title,
                   req, resp, sent, memory, now, minted, result, began, last>>

-----------------------------------------------------------------------------

\* SendMessage has answered; the history keeps the request of a Detect turn
\* that failed on the engine call
TurnReturn(p) ==
    /\ pc[p] = "done"
    /\ pc' = [pc EXCEPT ![p] = "idle"]
    /\ last' = IF result[p].branch = "detect" /\ result[p].cause = "call anthropic"
               THEN Ptr([req |-> req[p], len |-> Len(Deref(began).msgs)])
               ELSE Nil
    /\ began' = Nil
    /\ req' = [req EXCEPT ![p] = NoRequest]
    /\ resp' = [resp EXCEPT ![p] = NoResponse]
    /\ sent' = [sent EXCEPT ![p] = <<>>]
    /\ result' = [result EXCEPT ![p] = NoResult]
    /\ summary' = [summary EXCEPT ![p] = Nil]
    /\ cursor' = [cursor EXCEPT ![p] = Nil]
    /\ count' = [count EXCEPT ![p] = 0]
    /\ total' = [total EXCEPT ![p] = 0]
    /\ allMsgs' = [allMsgs EXCEPT ![p] = <<>>]
    /\ summaryText' = [summaryText EXCEPT ![p] = Nil]
    /\ sumErr' = [sumErr EXCEPT ![p] = FALSE]
    /\ window' = [window EXCEPT ![p] = NoWindow]
    /\ UNCHANGED <<config, quota, msgs, conv, clock, hist, archived, title, memory,
                   cache, now, minted>>

TurnStep(p) ==
    \/ SendMessage(p)
    \/ DeleteConversation(p)
    \/ GetSummaryWithCursor(p)
    \/ CountByConversationID(p)
    \/ GetByConversationIDReturn(p)
    \/ Route(p)
    \/ DetectStoreUser(p)
    \/ DetectCall(p)
    \/ DetectPersistMemory(p)
    \/ DetectRespond(p)
    \/ DetectTextFallback(p)
    \/ DetectNoContent(p)
    \/ BuildLookup(p)
    \/ BuildCheckInstalled(p)
    \/ BuildCheckFailed(p)
    \/ HandleInstallRequired(p)
    \/ BuildSchema(p)
    \/ BuildCall(p)
    \/ BuildSuggest(p)
    \/ ConfirmStoreUser(p)
    \/ ConfirmCall(p)
    \/ ConfirmPersistMemory(p)
    \/ ConfirmStoreAssistant(p)
    \/ ConfirmAutoContinue(p)
    \/ ConfirmDeletePending(p)
    \/ TurnReturn(p)

NextTurn == \E p \in SeqProcs : TurnStep(p)

\* one request at a time, served by any of the three branches
SpecTurn == InitTurn /\ [][NextTurn]_vars

-----------------------------------------------------------------------------
(* Turns whose engine responses may call update_memory *)

\* texts for Detect and results for Confirm that resume no build; the
\* engine may call update_memory with any input
InitMemory ==
    /\ env = [ requests |-> DetectRequests
                                \cup {r \in ConfirmRequests(ActionResults) :
                                        /\ r.selected_suggestion_id = Nil
                                        /\ Deref(r.action_result).action # "install_plugin"},
               calls    |-> MemoryCalls,
               suggestions |-> {0} ]
    /\ archived = FALSE
    /\ Turns

MemoryStep(p) ==
    \/ SendMessage(p)
    \/ GetSummaryWithCursor(p)
    \/ CountByConversationID(p)
    \/ GetByConversationIDReturn(p)
    \/ Route(p)
    \/ DetectStoreUser(p)
    \/ DetectCall(p)
    \/ DetectPersistMemory(p)
    \/ DetectRespond(p)
    \/ DetectTextFallback(p)
    \/ DetectNoContent(p)
    \/ ConfirmStoreUser(p)
    \/ ConfirmCall(p)
    \/ ConfirmPersistMemory(p)
    \/ ConfirmStoreAssistant(p)
    \/ TurnReturn(p)

NextMemory == \E p \in SeqProcs : MemoryStep(p)

\* one request at a time, Detect or Confirm, with memory updates
SpecMemory == InitMemory /\ [][NextMemory]_vars

-----------------------------------------------------------------------------
(* Suggestions over time *)

\* texts for Detect and selected suggestions for Build, while time passes
InitCache ==
    /\ env = [ requests |-> DetectRequests \cup BuildRequests,
               calls    |-> {[kind |-> "none", len |-> 0, text |-> ""]},
               suggestions |-> 0..MaxSuggestions ]
    /\ archived = FALSE
    /\ Turns

CacheStep(p) ==
    \/ SendMessage(p)
    \/ GetSummaryWithCursor(p)
    \/ CountByConversationID(p)
    \/ GetByConversationIDReturn(p)
    \/ Route(p)
    \/ DetectStoreUser(p)
    \/ DetectCall(p)
    \/ DetectPersistMemory(p)
    \/ DetectRespond(p)
    \/ DetectTextFallback(p)
    \/ DetectNoContent(p)
    \/ BuildLookup(p)
    \/ BuildCheckInstalled(p)
    \/ BuildCheckFailed(p)
    \/ HandleInstallRequired(p)
    \/ BuildSchema(p)
    \/ BuildCall(p)
    \/ BuildSuggest(p)
    \/ TurnReturn(p)

NextCache == (\E p \in SeqProcs : CacheStep(p)) \/ Tick

\* one request at a time, Detect or Build, and the cache's clock
SpecCache == InitCache /\ [][NextCache]_vars

-----------------------------------------------------------------------------
(* Overlapping Confirm turns after an interrupted build *)

\* the stores after a Detect turn whose response offered suggestion 1 and a
\* Build turn for it that answered install-required: three messages, the
\* title, the cached suggestion and the pending-build marker
Interrupted ==
    /\ now = 0
    /\ msgs = << [id |-> 1, role |-> "user", created_at |-> ClockStep,
                  content |-> "hello", content_type |-> "text"],
                 [id |-> 2, role |-> "assistant", created_at |-> 2 * ClockStep,
                  content |-> "response", content_type |-> "text"],
                 [id |-> 3, role |-> "assistant", created_at |-> 3 * ClockStep,
                  content |-> "install", content_type |-> "text"] >>
    /\ clock = 3 * ClockStep
    /\ title = Ptr(truncateTitle("hello"))
    /\ cache = [suggestion    |-> [i \in SuggIds |->
                                      IF i = 1 THEN Entry(1, suggestionTTL) ELSE Nil],
                pending_build |-> Entry(1, suggestionTTL)]
    /\ minted = <<[at |-> 0, returned |-> TRUE]>>
    /\ conv = [summary |-> Nil, summary_up_to |-> Nil]
    /\ memory = [k \in Keys |-> Nil]

\* the client reports the successful install, possibly more than once at a
\* time
InitResume ==
    /\ env = [ requests |-> {r \in ConfirmRequests(ActionResults) :
                                /\ r.selected_suggestion_id = Nil
                                /\ Deref(r.action_result).action = "install_plugin"
                                /\ Deref(r.action_result).success},
               calls    |-> {[kind |-> "none", len |-> 0, text |-> ""]},
               suggestions |-> {0} ]
    /\ archived = FALSE
    /\ \E c \in TurnConfigs : windowSize = c[1] /\ summarizeTrigger = c[2]
    /\ workers = Procs
    /\ Interrupted
    /\ cap = Len(msgs) + MaxTurnMsgs
    /\ quota = [p \in Procs |-> MaxOverlap]
    /\ pc = [p \in Procs |-> "idle"]
    /\ summary = [p \in Procs |-> Nil]
    /\ cursor = [p \in Procs |-> Nil]
    /\ count = [p \in Procs |-> 0]
    /\ total = [p \in Procs |-> 0]
    /\ allMsgs = [p \in Procs |-> <<>>]
    /\ summaryText = [p \in Procs |-> Nil]
    /\ sumErr = [p \in Procs |-> FALSE]
    /\ window = [p \in Procs |-> NoWindow]
    /\ hist = NoHist
    /\ req = [p \in Procs |-> NoRequest]
    /\ resp = [p \in Procs |-> NoResponse]
    /\ sent = [p \in Procs |-> <<>>]
    /\ result = [p \in Procs |-> NoResult]
    /\ began = Nil
    /\ last = Nil
    /\ NoAmount

ResumeStep(p) ==
    \/ SendMessage(p)
    \/ GetSummaryWithCursor(p)
    \/ CountByConversationID(p)
    \/ GetByConversationIDReturn(p)
    \/ Route(p)
    \/ ConfirmStoreUser(p)
    \/ ConfirmCall(p)
    \/ ConfirmPersistMemory(p)
    \/ ConfirmStoreAssistant(p)
    \/ ConfirmAutoContinue(p)
    \/ ConfirmDeletePending(p)
    \/ BuildLookup(p)
    \/ BuildCheckInstalled(p)
    \/ BuildCheckFailed(p)
    \/ HandleInstallRequired(p)
    \/ BuildSchema(p)
    \/ BuildCall(p)
    \/ BuildSuggest(p)
    \/ TurnReturn(p)

NextResume == \E p \in Procs : ResumeStep(p)

\* Confirm requests for one conversation, overlapping
SpecResume == InitResume /\ [][NextResume]_vars

-----------------------------------------------------------------------------
(* Detect turns with different texts *)

\* the texts the user may send
Titles == {"hello", "swap ETH"}

TitleRequests == {Request("c1", Owner, t, Nil, Nil, FALSE) : t \in Titles}

\* texts for Detect; every turn may bring another text
InitTitle ==
    /\ env = [ requests |-> TitleRequests,
               calls    |-> {[kind |-> "none", len |-> 0, text |-> ""]},
               suggestions |-> {0} ]
    /\ archived = FALSE
    /\ Turns

TitleStep(p) ==
    \/ SendMessage(p)
    \/ GetSummaryWithCursor(p)
    \/ CountByConversationID(p)
    \/ GetByConversationIDReturn(p)
    \/ Route(p)
    \/ DetectStoreUser(p)
    \/ DetectCall(p)
    \/ DetectPersistMemory(p)
    \/ DetectRespond(p)
    \/ DetectTextFallback(p)
    \/ DetectNoContent(p)
    \/ TurnReturn(p)

NextTitle == \E p \in SeqProcs : TitleStep(p)

\* one request at a time, each a Detect turn with a text of its own
SpecTitle == InitTitle /\ [][NextTitle]_vars

-----------------------------------------------------------------------------
(* Titles of texts of any length *)

\* code points of one, two and three bytes: 'a', e acute, the euro sign
Letters == {97, 233, 8364}

\* n times 'a', then m times the letter c
Run(n, c, m) == [i \in 1..(n + m) |-> IF i <= n THEN 97 ELSE c]

Texts ==
    { Run(x[1], x[2], x[3]) :
        x \in {y \in (0..(maxLen + MaxExtra)) \X Letters \X (0..(maxLen + MaxExtra)) :
                  y[1] + y[3] <= maxLen + MaxExtra} }

TruncateRequests == {Request("c1", Owner, Utf8(t), Nil, Nil, FALSE) : t \in Texts}

\* a first Detect turn has come to its title update, with any text
InitTruncate ==
    /\ env = NoEnv
    /\ archived = FALSE
    /\ \E c \in TurnConfigs : windowSize = c[1] /\ summarizeTrigger = c[2]
    /\ workers = SeqProcs
    /\ cap = MaxTurnMsgs
    /\ quota = [p \in Procs |-> 0]
    /\ msgs = <<>>
    /\ conv = [summary |-> Nil, summary_up_to |-> Nil]
    /\ clock = 0
    /\ pc = [p \in Procs |-> IF p \in SeqProcs THEN "updateTitle" ELSE "idle"]
    /\ summary = [p \in Procs |-> Nil]
    /\ cursor = [p \in Procs |-> Nil]
    /\ count = [p \in Procs |-> 0]
    /\ total = [p \in Procs |-> 0]
    /\ allMsgs = [p \in Procs |-> <<>>]
    /\ summaryText = [p \in Procs |-> Nil]
    /\ sumErr = [p \in Procs |-> FALSE]
    /\ window = [p \in Procs |-> NoWindow]
    /\ hist = NoHist
    /\ title = Nil
    /\ \E r \in TruncateRequests :
           req = [p \in Procs |-> IF p \in SeqProcs THEN r ELSE NoRequest]
    /\ resp = [p \in Procs |-> NoResponse]
    /\ sent = [p \in Procs |-> <<>>]
    /\ memory = [k \in Keys |-> Nil]
    /\ cache = [suggestion |-> [i \in SuggIds |-> Nil], pending_build |-> Nil]
    /\ now = 0
    /\ minted = <<>>
    /\ result = [p \in Procs |-> NoResult]
    /\ began = Nil
    /\ last = Nil
    /\ NoAmount

\* intent.go lines 177-178: title := truncateTitle(req.Content), UpdateTitle
UpdateTitle(p) ==
    /\ pc[p] = "updateTitle"
    /\ title' = Ptr(truncateTitle(req[p].content))
    /\ pc' = [pc EXCEPT ![p] = "done"]
    /\ UNCHANGED <<config, quota, msgs, conv, clock, locals, hist, archived, req,
                   resp, sent, memory, cache, now, minted, result, began, last>>

NextTruncate == \E p \in SeqProcs : UpdateTitle(p)

\* truncateTitle applied to one text
SpecTruncate == InitTruncate /\ [][NextTruncate]_vars

-----------------------------------------------------------------------------
(* toBaseUnits (policy.go) *)

Digits == {"0", "1", "2", "3", "4", "5", "6", "7", "8", "9"}

At(s, i) == SubSeq(s, i, i)

\* strings.SplitN(amount, ".", 2): where the first "." is, 0 if there is none
IndexOfDot(s) ==
    IF \E i \in 1..Len(s) : At(s, i) = "."
    THEN CHOOSE i \in 1..Len(s) : At(s, i) = "." /\ \A j \in 1..(i - 1) : At(s, j) # "."
    ELSE 0

\* strings.Repeat
RECURSIVE Repeat(_, _)
Repeat(c, n) == IF n = 0 THEN "" ELSE c \o Repeat(c, n - 1)

\* new(big.Int).SetString(raw, 10): an optional sign, then one or more digits
SetString(raw) ==
    LET signed == Len(raw) > 0 /\ At(raw, 1) \in {"+", "-"}
        body == IF signed THEN SubSeq(raw, 2, Len(raw)) ELSE raw
    IN  [ ok     |-> Len(body) > 0 /\ \A i \in 1..Len(body) : At(body, i) \in Digits,
          neg    |-> signed /\ At(raw, 1) = "-",
          digits |-> body ]

RECURSIVE StripZeros(_)
StripZeros(digits) ==
    IF Len(digits) > 1 /\ At(digits, 1) = "0"
    THEN StripZeros(SubSeq(digits, 2, Len(digits)))
    ELSE digits

\* (*big.Int).String
BigString(z) ==
    LET d == StripZeros(z.digits)
    IN  IF z.neg /\ d # "0" THEN "-" \o d ELSE d

\* toBaseUnits
toBaseUnits(a, d) ==
    LET dot == IndexOfDot(a)
        whole == IF dot = 0 THEN a ELSE SubSeq(a, 1, dot - 1)
        frac == IF dot = 0 THEN "" ELSE SubSeq(a, dot + 1, Len(a))
        padded == IF Len(frac) > d
                  THEN SubSeq(frac, 1, d)
                  ELSE frac \o Repeat("0", d - Len(frac))
        parsed == SetString(whole \o padded)
    IN  IF ~parsed.ok THEN a ELSE BigString(parsed)

\* frac[:decimals] of toBaseUnits, line 256: slicing a string to a negative
\* length is a run-time panic (slice bounds out of range)
SliceOutOfRange(a, d) ==
    LET dot == IndexOfDot(a)
        frac == IF dot = 0 THEN "" ELSE SubSeq(a, dot + 1, Len(a))
    IN  Len(frac) > d /\ (d < 0 \/ d > Len(frac))

\* the characters of an amount: digits, the point, a letter, a sign
AmountChars == {"0", "1", "5", ".", "a", "-"}

RECURSIVE Strings(_)
Strings(n) ==
    IF n = 0
    THEN {""}
    ELSE Strings(n - 1) \cup {s \o c : s \in Strings(n - 1), c \in AmountChars}

\* a configuration with any fromAmount, a token of any number of decimals
InitUnits ==
    /\ env = NoEnv
    /\ archived = FALSE
    /\ \E c \in TurnConfigs : windowSize = c[1] /\ summarizeTrigger = c[2]
    /\ workers = SeqProcs
    /\ cap = MaxTurnMsgs
    /\ quota = [p \in Procs |-> 0]
    /\ msgs = <<>>
    /\ conv = [summary |-> Nil, summary_up_to |-> Nil]
    /\ clock = 0
    /\ pc = [p \in Procs |-> "idle"]
    /\ summary = [p \in Procs |-> Nil]
    /\ cursor = [p \in Procs |-> Nil]
    /\ count = [p \in Procs |-> 0]
    /\ total = [p \in Procs |-> 0]
    /\ allMsgs = [p \in Procs |-> <<>>]
    /\ summaryText = [p \in Procs |-> Nil]
    /\ sumErr = [p \in Procs |-> FALSE]
    /\ window = [p \in Procs |-> NoWindow]
    /\ hist = NoHist
    /\ title = Nil
    /\ req = [p \in Procs |-> NoRequest]
    /\ resp = [p \in Procs |-> NoResponse]
    /\ sent = [p \in Procs |-> <<>>]
    /\ memory = [k \in Keys |-> Nil]
    /\ cache = [suggestion |-> [i \in SuggIds |-> Nil], pending_build |-> Nil]
    /\ now = 0
    /\ minted = <<>>
    /\ result = [p \in Procs |-> NoResult]
    /\ began = Nil
    /\ last = Nil
    /\ amount \in Strings(MaxAmountLen)
    /\ decimals \in (0 - MaxDecimals)..MaxDecimals
    /\ fromAmount = Nil

\* convertAmountToBaseUnits, lines 239-240: the call returns the base units,
\* or the goroutine panics inside toBaseUnits
convertAmountToBaseUnits ==
    /\ fromAmount = Nil
    /\ pc[1] = "idle"
    /\ IF SliceOutOfRange(amount, decimals)
       THEN /\ pc' = [pc EXCEPT ![1] = "panic"]
            /\ UNCHANGED fromAmount
       ELSE /\ fromAmount' = Ptr(toBaseUnits(amount, decimals))
            /\ UNCHANGED pc
    /\ UNCHANGED <<windowSize, summarizeTrigger, workers, cap, env, amount,
                   decimals, quota, msgs, conv, clock, locals, hist, branches>>

NextUnits == convertAmountToBaseUnits

\* toBaseUnits applied to one amount
SpecUnits == InitUnits /\ [][NextUnits]_vars

-----------------------------------------------------------------------------
(* Turns of a conversation that summarizes *)

\* the stores after a Detect turn whose response offered suggestion 1: the
\* first exchange, the title and the cached suggestion
Offered ==
    /\ now = 0
    /\ msgs = << [id |-> 1, role |-> "user", created_at |-> ClockStep,
                  content |-> "hello", content_type |-> "text"],
                 [id |-> 2, role |-> "assistant", created_at |-> 2 * ClockStep,
                  content |-> "response", content_type |-> "text"] >>
    /\ clock = 2 * ClockStep
    /\ title = Ptr(truncateTitle("hello"))
    /\ cache = [suggestion    |-> [i \in SuggIds |->
                                      IF i = 1 THEN Entry(1, suggestionTTL) ELSE Nil],
                pending_build |-> Nil]
    /\ minted = <<[at |-> 0, returned |-> TRUE]>>
    /\ conv = [summary |-> Nil, summary_up_to |-> Nil]
    /\ memory = [k \in Keys |-> Nil]

\* any request for a conversation that begins with the stores of Offered and
\* a window small enough for the later turns to summarize and meet the cursor
InitStore ==
    /\ env = [ requests |-> DetectRequests
                                \cup {r \in BuildRequests :
                                        r.selected_suggestion_id = Ptr(1)}
                                \cup {r \in ConfirmRequests(ActionResults) :
                                        r.selected_suggestion_id = Nil}
                                \cup StrayRequests,
               calls    |-> {[kind |-> "none", len |-> 0, text |-> ""]},
               suggestions |-> {0} ]
    /\ archived = FALSE
    /\ \E c \in RaceConfigs : windowSize = c[1] /\ summarizeTrigger = c[2]
    /\ workers = SeqProcs
    /\ Offered
    /\ cap = Len(msgs) + MaxTurnMsgs
    /\ quota = [p \in Procs |-> IF p \in SeqProcs THEN MaxTurns ELSE 0]
    /\ pc = [p \in Procs |-> "idle"]
    /\ summary = [p \in Procs |-> Nil]
    /\ cursor = [p \in Procs |-> Nil]
    /\ count = [p \in Procs |-> 0]
    /\ total = [p \in Procs |-> 0]
    /\ allMsgs = [p \in Procs |-> <<>>]
    /\ summaryText = [p \in Procs |-> Nil]
    /\ sumErr = [p \in Procs |-> FALSE]
    /\ window = [p \in Procs |-> NoWindow]
    /\ hist = NoHist
    /\ req = [p \in Procs |-> NoRequest]
    /\ resp = [p \in Procs |-> NoResponse]
    /\ sent = [p \in Procs |-> <<>>]
    /\ result = [p \in Procs |-> NoResult]
    /\ began = Nil
    /\ last = Nil
    /\ NoAmount

StoreStep(p) ==
    \/ TurnStep(p)
    \/ CountSince(p)
    \/ GetSinceReturn(p)
    \/ GetSinceForSummarize(p)
    \/ GetRecentSinceBetween(p)
    \/ GetByConversationIDForSummarize(p)
    \/ SummarizeCall(p)
    \/ SummarizeCallFails(p)
    \/ UpdateSummaryWithCursor(p)
    \/ UpdateSummaryWithCursorFails(p)
    \/ ReloadAfterResummarize(p)
    \/ GetRecentSinceAfterResummarize(p)
    \/ ReloadAfterFirstSummarize(p)
    \/ GetRecentSinceAfterFirstSummarize(p)

NextStore == \E p \in SeqProcs : StoreStep(p)

\* one request at a time, any branch, with summarization and archiving
SpecStore == InitStore /\ [][NextStore]_vars

-----------------------------------------------------------------------------
(* Properties of a turn *)

\* where each branch's code runs
DetectSteps == {"detect", "detectCall", "detectMemory", "detectRespond"}
BuildSteps == {"build", "buildCheck", "checkFailed", "installRequired", "buildSchema",
               "buildCall", "buildSuggest"}
ConfirmSteps == {"confirm", "confirmCall", "confirmMemory", "confirmStore",
                 "autoContinue", "deletePending"}

\* the branch the priority order gives a request
ByPriority(r) ==
    IF r.action_result # Nil THEN "confirm"
    ELSE IF r.selected_suggestion_id # Nil THEN "build"
    ELSE "detect"

\* C11: ProcessMessage hands each request to exactly one branch, by fixed
\* priority: Confirm whenever an action result is present (also when a
\* selected suggestion is present too), otherwise Build whenever a selected
\* suggestion is present, otherwise Detect; Detect's and Confirm's code runs
\* only for a request handed to them, and Build's code only for a request
\* handed to Build or for the pending build of a Confirm turn
C11_OneBranchByPriority ==
    [][\A p \in SeqProcs :
          /\ pc[p] = "route" /\ pc'[p] # "route" =>
                /\ pc'[p] = ByPriority(req[p])
                /\ result'[p].branch = ByPriority(req[p])
          /\ pc'[p] \in DetectSteps => result'[p].branch = "detect"
          /\ pc'[p] \in ConfirmSteps => result'[p].branch = "confirm"
          /\ pc'[p] \in BuildSteps => result'[p].branch \in {"build", "confirm"}
          /\ pc'[p] \in BuildSteps /\ result'[p].branch = "confirm" =>
                pc[p] \in BuildSteps \cup {"deletePending"}]_vars

\* a request with both an action result and a selected suggestion has been
\* handed to Confirm
C11_Witness ==
    /\ pc[1] = "confirm"
    /\ req[1].action_result # Nil
    /\ req[1].selected_suggestion_id # Nil

\* the messages the turn of p has appended so far
Appended(p) == SubSeq(msgs, Len(Deref(began).msgs) + 1, Len(msgs))

\* the assistant messages of a list, and its synthetic user messages
Assistants(list) == {i \in DOMAIN list : list[i].role = "assistant"}

Synthetics(list) ==
    {i \in DOMAIN list : list[i].role = "user" /\ list[i].content_type = "action_result"}

\* SendMessage answers 200
Succeeded(p) == pc[p] = "done" /\ result[p].status = 200

\* C12: every turn that returns successfully has appended exactly one
\* assistant message (and, in the Confirm branch, exactly one synthetic user
\* message), in all three branches, a Confirm turn that goes on into Build
\* included
C12_OneAssistantMessagePerTurn ==
    \A p \in SeqProcs :
        Succeeded(p) =>
            /\ Cardinality(Assistants(Appended(p))) = 1
            /\ result[p].branch = "confirm" =>
                    Cardinality(Synthetics(Appended(p))) = 1

\* SendMessage has passed its validation and called ProcessMessage
Processing(p) ==
    /\ pc[p] # "idle"
    /\ ~(pc[p] = "done" /\ result[p].status = 400)

\* the conversation of the request is absent, archived, or another user's
Missing(r) ==
    \/ r.conversation_id # "c1"
    \/ archived
    \/ r.public_key # Owner

\* C13: ProcessMessage for a conversation that does not exist, is archived or
\* belongs to another public key is rejected as not found before the window
\* is computed; the messages, the conversation's summary, cursor and title,
\* the memory documents and the caches are as they were
C13_MissingConversationRejected ==
    \A p \in SeqProcs :
        Processing(p) /\ Missing(req[p]) =>
            /\ pc[p] = "done"
            /\ result[p].status = 404
            /\ result[p].error = "conversation not found"
            /\ window[p] = NoWindow
            /\ summary[p] = Nil /\ cursor[p] = Nil /\ total[p] = 0
            /\ Stores = Deref(began)

\* a request for the archived conversation of its owner has been answered,
\* with messages, a title and cached suggestions left by earlier turns
C13_Witness ==
    /\ pc[1] = "done"
    /\ result[1].status = 404
    /\ archived
    /\ msgs # <<>>
    /\ title # Nil
    /\ minted # <<>>
    /\ req[1].conversation_id = "c1"
    /\ req[1].public_key = Owner
    /\ req[1].action_result # Nil

\* the engine call of the Detect turn of p has failed
DetectFailedUpstream(p) ==
    /\ pc[p] = "done"
    /\ result[p].branch = "detect"
    /\ result[p].cause = "call anthropic"

\* C14: when the engine call of a Detect turn fails, the turn fails after
\* that one call (nothing is retried), the user's message stored at the
\* start of the turn is in the store, and the turn has stored no assistant
\* message
C14_DetectUpstreamFailure ==
    \A p \in SeqProcs :
        DetectFailedUpstream(p) =>
            /\ result[p].status = 500
            /\ Len(sent[p]) = 1
            /\ Len(Appended(p)) = 1
            /\ Appended(p)[1].role = "user"
            /\ Appended(p)[1].content = req[p].content
            /\ Assistants(Appended(p)) = {}

\* a Detect turn has failed on its engine call in a conversation that
\* already has messages
C14_Witness ==
    /\ DetectFailedUpstream(1)
    /\ Len(msgs) > 1

\* the user messages of a list that carry the text
Copies(list, text) ==
    {i \in DOMAIN list : list[i].role = "user" /\ list[i].content = text}

\* what a list holds after its first n messages
Since(list, n) == SubSeq(list, n + 1, Len(list))

\* the turn of p serves again the request whose Detect turn has just failed
\* on the engine call
Retrying(p) ==
    /\ last # Nil
    /\ req[p] = Deref(last).req
    /\ result[p].branch = "detect"

\* C15: when a Detect turn fails on an upstream error and the caller sends
\* the same request again, the history then holds the user's message exactly
\* once: the retry adds no second copy to the message store, nor to the
\* message list sent to the completion engine
C15_RetryKeepsOneCopy ==
    \A p \in SeqProcs :
        Retrying(p) /\ pc[p] = "done" =>
            /\ Cardinality(Copies(Since(msgs, Deref(last).len), req[p].content)) = 1
            /\ \A i \in DOMAIN sent[p] :
                  Cardinality(Copies(Since(sent[p][i], Deref(last).len),
                                     req[p].content)) = 1

\* the turn of p is over and its last engine call returned a response
Responded(p) ==
    /\ pc[p] = "done"
    /\ sent[p] # <<>>
    /\ result[p].cause # "call anthropic"

\* C16: in each branch, when the engine's response holds no parsable instance
\* of the branch's required tool (respond_to_user, build_policy,
\* confirm_action), the turn fails and stores no assistant message
C16_MissingToolFailsTurn ==
    \A p \in SeqProcs :
        Responded(p) /\ resp[p].tool # "ok" =>
            /\ result[p].status = 500
            /\ Assistants(Appended(p)) = {}

-----------------------------------------------------------------------------
(* Properties of the user memory *)

\* the turn of p is at its memory step, which is taken
Persisting(p) ==
    /\ pc[p] \in {"detectMemory", "confirmMemory"}
    /\ pc'[p] # pc[p]

\* the document the response of p carries (its size and its text)
Update(p) == [len |-> resp[p].memory.len, text |-> resp[p].memory.text]

\* C17: every stored memory document has size <= 4000; an update larger than
\* the cap is rejected and leaves the stored document as it was; an accepted
\* update replaces the whole document of the user with exactly the new
\* content
C17_MemoryCapAndReplacement ==
    [][/\ \A k \in Keys : memory'[k] # Nil => Deref(memory'[k]).len <= 4000
       /\ \A p \in SeqProcs :
            Persisting(p) =>
                /\ resp[p].memory.len > 4000 => memory' = memory
                /\ memory' # memory =>
                      /\ resp[p].memory.kind = "ok"
                      /\ memory'[req[p].public_key] = Ptr(Update(p))
                      /\ \A k \in Keys \ {req[p].public_key} : memory'[k] = memory[k]
       /\ (\A p \in SeqProcs : ~Persisting(p)) => memory' = memory]_vars

\* an update over the cap has left in place the document an earlier turn
\* stored
C17_Witness ==
    /\ pc[1] \in {"detectRespond", "confirmStore"}
    /\ resp[1].memory.kind = "ok"
    /\ resp[1].memory.len > 4000
    /\ memory[Owner] # Nil
    /\ Deref(memory[Owner]).len < 4000

\* the update of the turn of p is not stored: its input does not parse, it
\* is over the cap, or the write has failed
NotStored(p) ==
    \/ resp[p].memory.kind = "bad"
    \/ resp[p].memory.kind = "ok" /\ resp[p].memory.len > 4000
    \/ resp[p].memory.kind = "ok" /\ memory[req[p].public_key] # Ptr(Update(p))

\* C18: a failed write to the memory store, an update over the cap or an
\* update_memory input that does not parse never changes the outcome of the
\* turn: the memory step goes on to the step that follows it when the
\* response has no memory tool output, with the response, the result so far
\* and every store as they were
C18_MemoryNeverChangesOutcome ==
    [][\A p \in SeqProcs :
          Persisting(p) /\ (resp[p].memory.kind # "none") =>
              /\ pc'[p] = IF pc[p] = "detectMemory" THEN "detectRespond"
                                                    ELSE "confirmStore"
              /\ UNCHANGED <<msgs, conv, title, cache, req, resp, sent, result>>
              /\ (resp[p].memory.kind = "bad" \/ resp[p].memory.len > 4000) =>
                    memory' = memory]_vars

\* turns whose update was not stored have been answered 200 with a message:
\* an input that did not parse, and a write that failed
C18_Witness ==
    /\ Succeeded(1)
    /\ NotStored(1)
    /\ resp[1].memory.kind = "ok"
    /\ resp[1].memory.len <= 4000
    /\ Assistants(Appended(1)) # {}

-----------------------------------------------------------------------------
(* Properties of the suggestion cache *)

\* the suggestion ids that Detect responses have returned to the user
ReturnedIds == {i \in DOMAIN minted : minted[i].returned}

\* the turn of p looks up the suggestion i
LooksUp(p, i) ==
    /\ pc[p] = "build"
    /\ pc'[p] # "build"
    /\ req[p].selected_suggestion_id = Ptr(i)

\* C19: every suggestion returned in a Detect response has been stored in
\* the cache under its generated id for one hour: a Build request naming the
\* id less than one hour later finds it, one naming it after the hour does
\* not
C19_ReturnedSuggestionsCached ==
    [][\A p \in SeqProcs : \A i \in ReturnedIds :
          LooksUp(p, i) =>
              /\ now < minted[i].at + TicksPerHour => pc'[p] = "buildCheck"
              /\ now > minted[i].at + TicksPerHour =>
                    /\ pc'[p] = "done"
                    /\ result'[p].cause = "suggestion not found or expired"]_vars

\* the Build turn of p has failed on the lookup of its suggestion
SuggestionNotFound(p) ==
    /\ pc[p] = "done"
    /\ result[p].branch = "build"
    /\ result[p].cause = "suggestion not found or expired"

\* what the caller sees of a result
Seen(r) == <<r.status, r.error>>

\* C20: a Build turn whose suggestion id is absent from the cache or has
\* expired ends in a not-found failure that the caller can tell from the
\* generic failure of an upstream error, and the core has called nothing
\* again
C20_SuggestionNotFoundDistinct ==
    \A p \in SeqProcs :
        SuggestionNotFound(p) =>
            /\ result[p].status # 200
            /\ Seen(result[p]) # Seen(ErrorResponse(p, "call anthropic"))
            /\ sent[p] = <<>>

-----------------------------------------------------------------------------
(* Properties of the pending build *)

\* the Build turn of p has answered that the plugin must be installed
InstallRequired(p) ==
    /\ Succeeded(p)
    /\ result[p].branch = "build"
    /\ result[p].payload = "install_required"

\* C21: when a Build turn selects a suggestion whose plugin the install check
\* reports as not installed, the turn returns an install-required payload
\* (no policy-ready payload, no engine call), and the pending-build marker of
\* the conversation then holds that suggestion id and has not expired
C21_InstallRequiredLeavesMarker ==
    \A p \in SeqProcs :
        InstallRequired(p) =>
            /\ sent[p] = <<>>
            /\ RedisGet(cache.pending_build) = req[p].selected_suggestion_id

\* the Confirm turn of p found the pending-build marker and is over
Resumed(p) ==
    /\ pc[p] = "done"
    /\ result[p].branch = "confirm"
    /\ req[p].action_result = Nil

\* C22: when a Confirm turn reports a successful install_plugin for a
\* conversation that has a pending-build marker, the marker is deleted, Build
\* runs for the marked suggestion within the turn, and the response carries a
\* policy-ready payload with the confirmation text as its visible message;
\* after the turn the marker is no longer in the cache
C22_InstallResumesBuild ==
    \A p \in SeqProcs :
        Resumed(p) =>
            /\ result[p].status = 200
            /\ result[p].payload = "policy_ready"
            /\ msgs[result[p].message].content = "response"
            /\ cache.pending_build = Nil

\* the Confirm turn of p has read the pending-build marker and gone on to
\* Build
Resuming(p) ==
    /\ result[p].branch = "confirm"
    /\ req[p].action_result = Nil

\* the markers written so far: one by every install-required answer
Markers == {i \in DOMAIN msgs : msgs[i].content = "install"}

\* C23: a pending-build marker is consumed at most once: for one marker
\* written by an install-required Build at most one Confirm turn goes on into
\* Build, also when several Confirm requests reporting the successful install
\* overlap
C23_MarkerConsumedOnce ==
    Cardinality({p \in Procs : Resuming(p)}) <= Cardinality(Markers)

\* the first exchange is stored: one user message and one assistant message
FirstExchangeStored ==
    /\ \E i \in DOMAIN msgs : msgs[i].role = "user"
    /\ \E i \in DOMAIN msgs : msgs[i].role = "assistant"

\* C24: the title is set by the Detect turn of the conversation's first
\* exchange only: once one user message and one assistant message have been
\* stored, no step of a later turn changes the title
C24_TitleSetOnce ==
    [][FirstExchangeStored => title' = title]_vars

\* the characters a reader of the bytes sees: a byte that begins no complete
\* encoding is one replacement character (65533)
IsCont(bytes, i) == i <= Len(bytes) /\ bytes[i] >= 128 /\ bytes[i] < 192

RuneLen(bytes) ==
    IF bytes[1] \in 194..223 /\ IsCont(bytes, 2) THEN 2
    ELSE IF bytes[1] \in 224..239 /\ IsCont(bytes, 2) /\ IsCont(bytes, 3) THEN 3
    ELSE 1

DecodeRune(bytes) ==
    IF bytes[1] < 128 THEN bytes[1]
    ELSE IF RuneLen(bytes) = 2 THEN (bytes[1] - 192) * 64 + (bytes[2] - 128)
    ELSE IF RuneLen(bytes) = 3
         THEN (bytes[1] - 224) * 4096 + (bytes[2] - 128) * 64 + (bytes[3] - 128)
    ELSE 65533

RECURSIVE Runes(_)
Runes(bytes) ==
    IF bytes = <<>>
    THEN <<>>
    ELSE <<DecodeRune(bytes)>> \o Runes(SubSeq(bytes, RuneLen(bytes) + 1, Len(bytes)))

\* the title of p's text has been computed
Titled(p) == pc[p] = "done" /\ title # Nil

\* C25: for every input string truncateTitle returns the input unchanged
\* when its length is at most 50, and otherwise the first 47 characters
\* followed by "...", of length exactly 50; the result is never longer than 50
C25_TruncateTitle ==
    \A p \in SeqProcs :
        Titled(p) =>
            LET content == Runes(req[p].content)
                out == Runes(Deref(title))
            IN  /\ Len(content) <= 50 => Deref(title) = req[p].content
                /\ Len(content) > 50 =>
                       /\ Deref(title) = Utf8(SubSeq(content, 1, 47) \o Dots)
                       /\ Len(out) = 50
                /\ Len(out) <= 50

\* digits with at most one decimal point
IsDecimalAmount(s) ==
    /\ \A i \in 1..Len(s) : At(s, i) \in Digits \cup {"."}
    /\ \E i \in 1..Len(s) : At(s, i) \in Digits
    /\ Cardinality({i \in 1..Len(s) : At(s, i) = "."}) <= 1

\* a decimal amount, possibly with a sign
IsNumber(s) ==
    \/ IsDecimalAmount(s)
    \/ Len(s) > 0 /\ At(s, 1) \in {"+", "-"} /\ IsDecimalAmount(SubSeq(s, 2, Len(s)))

DigitValue(c) == CHOOSE n \in 0..9 : ToString(n) = c

\* the number a string of digits stands for
RECURSIVE ValueOf(_)
ValueOf(digits) ==
    IF digits = ""
    THEN 0
    ELSE ValueOf(SubSeq(digits, 1, Len(digits) - 1)) * 10
             + DigitValue(At(digits, Len(digits)))

RECURSIVE Pow10(_)
Pow10(n) == IF n = 0 THEN 1 ELSE 10 * Pow10(n - 1)

\* the decimal amount s times 10^d, fractional digits beyond d cut off
Scaled(s, d) ==
    LET dot == IndexOfDot(s)
        whole == IF dot = 0 THEN s ELSE SubSeq(s, 1, dot - 1)
        frac == IF dot = 0 THEN "" ELSE SubSeq(s, dot + 1, Len(s))
    IN  ValueOf(whole) * Pow10(d) + (ValueOf(frac) * Pow10(d)) \div Pow10(Len(frac))

\* C26: for every decimal amount string (digits with at most one decimal
\* point) and every decimals >= 0, toBaseUnits returns the decimal rendering,
\* without leading zeros, of the amount times 10^decimals with the fractional
\* digits beyond decimals cut off; for input that is not a number it returns
\* the input unchanged
C26_ToBaseUnits ==
    fromAmount # Nil =>
        /\ IsDecimalAmount(amount) =>
               Deref(fromAmount) = ToString(Scaled(amount, decimals))
        /\ ~IsNumber(amount) => Deref(fromAmount) = amount

\* C27: the message store is append-only: no step of any branch, of
\* summarization or of archiving changes or removes a message once it has
\* been created, and listing the conversation's messages returns them in
\* creation order
C27_MessagesAppendOnly ==
    [][/\ Len(msgs') >= Len(msgs)
       /\ SubSeq(msgs', 1, Len(msgs)) = msgs
       /\ OrderAsc({msgs'[i] : i \in DOMAIN msgs'}) = msgs']_vars

\* a summarized conversation has been archived and its messages are listed
C27_Witness ==
    /\ archived
    /\ conv.summary_up_to # Nil
    /\ Len(msgs) > summarizeTrigger
    /\ GetMessagesByConversationID = msgs

\* where getConversationWindow and summarizeOldMessages run, and where the
\* branch handlers run
WindowSteps ==
    { "getSummary", "countSince", "getSince134", "getSince143", "reload154",
      "recent160", "recent169", "countAll", "getAll", "getAll201", "reload212",
      "recent218", "summarize", "update" }
HandlerSteps == DetectSteps \cup BuildSteps \cup ConfirmSteps

\* C28: within one ProcessMessage call the window is computed exactly once,
\* and the computation, with any summary write it makes, is over before the
\* branch handler starts; no branch, a Confirm turn that goes on into Build
\* included, computes the window again, and no summarization of a request
\* writes after the request has returned
C28_WindowComputedOnce ==
    [][\A p \in SeqProcs :
          /\ pc'[p] = "getSummary" => pc[p] = "idle"
          /\ pc'[p] \in HandlerSteps /\ pc[p] \notin HandlerSteps => pc[p] = "route"
          /\ pc[p] \in HandlerSteps =>
                /\ pc'[p] \in HandlerSteps \cup {"done"}
                /\ window'[p] = window[p]
          /\ pc[p] \notin WindowSteps => conv' = conv]_vars

\* a Confirm turn whose window computation summarized the conversation has
\* gone on into Build
C28_Witness ==
    /\ Resuming(1)
    /\ pc[1] \in BuildSteps
    /\ began # Nil
    /\ Deref(began).conv.summary_up_to = Nil
    /\ conv.summary_up_to # Nil
    /\ window[1].summary = conv.summary

\* getConversationWindow returns to ProcessMessage in this step
Returns(p) == pc[p] # "route" /\ pc'[p] = "route"

\* C29: when the conversation has no cursor and no more than summarizeTrigger
\* messages, whether or not they are more than windowSize, GetWindow returns
\* all of them in creation order with no summary, calls no completion engine
\* and leaves the stored summary and cursor as they are
C29_NoCursorBelowTrigger ==
    [][\A p \in SeqProcs :
          (conv.summary_up_to = Nil
              /\ CountMessagesByConversationID <= summarizeTrigger) =>
                /\ pc'[p] # "summarize"
                /\ conv' = conv
                /\ Returns(p) =>
                      /\ window'[p].messages = GetMessagesByConversationID
                      /\ window'[p].summary = Nil]_vars

\* every message of a conversation with no cursor and more messages than
\* windowSize has been returned
C29_Witness ==
    /\ WindowReturned(1)
    /\ conv.summary_up_to = Nil
    /\ Len(msgs) > windowSize
    /\ Len(msgs) <= summarizeTrigger
    /\ window[1].messages = msgs

\* the last n messages of a list
Latest(list, n) == SubSeq(list, Len(list) - n + 1, Len(list))

\* the messages created after the stored cursor, in creation order
Active == GetMessagesSince(Deref(conv.summary_up_to))

\* C30: when a cursor exists and no more than summarizeTrigger messages were
\* created after it, GetWindow calls no completion engine and leaves summary
\* and cursor as they are; it returns the stored summary with all messages
\* after the cursor if they are no more than windowSize, and otherwise with
\* exactly the windowSize most recent of them, in creation order
C30_CursorBelowTrigger ==
    [][\A p \in SeqProcs :
          (conv.summary_up_to # Nil /\ Len(Active) <= summarizeTrigger) =>
                /\ pc'[p] # "summarize"
                /\ conv' = conv
                /\ Returns(p) =>
                      /\ window'[p].summary = conv.summary
                      /\ window'[p].messages =
                            IF Len(Active) <= windowSize
                            THEN Active
                            ELSE Latest(Active, windowSize)]_vars

\* the windowSize most recent of the messages after the cursor have been
\* returned with the stored summary
C30_Witness ==
    /\ WindowReturned(1)
    /\ conv.summary_up_to # Nil
    /\ Len(Active) > windowSize
    /\ Len(Active) <= summarizeTrigger
    /\ Len(window[1].messages) = windowSize
    /\ window[1].summary = conv.summary

\* a repeated summarization of p has its text and is about to store it; it
\* has stored it and getConversationWindow has returned
Resummarizing(p) == pc[p] = "update" /\ cursor[p] # Nil

Resummarized(p) ==
    /\ WindowReturned(p)
    /\ summaryText[p] # Nil /\ ~sumErr[p]
    /\ allMsgs[p][1].id > 1

C32_FailedResummarizeDegrades ==
    [][\A p \in SeqProcs :
          /\ (sumErr'[p] /\ pc[p] \in WindowSteps) =>
                /\ pc'[p] \in WindowSteps \cup {"route"}
                /\ conv' = conv
          /\ (Returns(p) /\ sumErr[p] /\ cursor[p] # Nil) =>
                /\ Len(Active) > summarizeTrigger
                /\ window'[p].summary = conv.summary
                /\ window'[p].messages = Latest(Active, windowSize)]_vars

\* a repeated summarization has failed and the window has been returned
C32_Witness ==
    /\ WindowReturned(1)
    /\ sumErr[1] /\ cursor[1] # Nil
    /\ window[1].summary = conv.summary
    /\ Len(window[1].messages) = windowSize

\* C33: in a Build turn, if the plugin-install check itself fails or cannot
\* be made because the request carries no access token, the turn does not
\* fail and does not return install-required: it goes on to the schema fetch
\* and the policy building as if the plugin were installed, and writes no
\* pending-build marker
C33_InstallCheckFailureContinues ==
    [][\A p \in SeqProcs :
          /\ ((pc[p] = "buildCheck" /\ ~req[p].access_token) \/ pc[p] = "checkFailed") =>
                /\ pc'[p] = "buildSchema"
                /\ result'[p] = result[p]
                /\ msgs' = msgs
          /\ pc[p] \in {"buildCheck", "checkFailed", "buildSchema", "buildCall", "buildSuggest"} =>
                /\ pc'[p] = "installRequired" =>
                       pc[p] = "buildCheck" /\ req[p].access_token
                /\ pc'[p] # "installRequired" => cache' = cache]_vars

\* a build that could not make the install check has gone on to a policy
C33_Witness ==
    /\ pc[1] = "done"
    /\ result[1].payload = "policy_ready"
    /\ req[1].selected_suggestion_id # Nil
    /\ ~req[1].access_token
    /\ cache.pending_build = Nil

\* the request of worker p reports a successful install_plugin
InstallSucceeded(p) ==
    /\ req[p].action_result # Nil
    /\ Deref(req[p].action_result).action = "install_plugin"
    /\ Deref(req[p].action_result).success

\* C34: a Confirm turn reads and deletes the pending-build marker only when
\* the reported action is install_plugin and success is true; a Confirm turn
\* for any other action, or for a failed install, leaves the marker unchanged
\* and never invokes Build
C34_AutoContinueOnlyAfterInstall ==
    [][\A p \in SeqProcs :
          /\ (pc[p] # "autoContinue" /\ pc'[p] = "autoContinue") => InstallSucceeded(p)
          /\ (pc[p] \in ConfirmSteps /\ req[p].action_result # Nil /\ ~InstallSucceeded(p)) =>
                /\ cache' = cache
                /\ pc'[p] \in (ConfirmSteps \ {"autoContinue", "deletePending"}) \cup {"done"}
          /\ (pc[p] \in ConfirmSteps /\ cache'.pending_build # cache.pending_build) =>
                pc[p] = "deletePending"]_vars

\* a failed install has been confirmed and the marker is still there
C34_Witness ==
    /\ pc[1] = "done"
    /\ req[1].action_result # Nil
    /\ ~InstallSucceeded(1)
    /\ result[1].status = 200
    /\ cache.pending_build # Nil

\* the text of an integer: an optional minus sign, then digits
IsIntegerText(t) ==
    LET body == IF Len(t) > 0 /\ At(t, 1) = "-" THEN SubSeq(t, 2, Len(t)) ELSE t
    IN  Len(body) > 0 /\ \A i \in 1..Len(body) : At(body, i) \in Digits

\* C35: toBaseUnits never panics or raises for any amount string and any
\* integer decimal count supplied through the request's balances (zero and
\* negative counts, empty strings and strings with several points included);
\* it returns the text of an integer, or the original string unchanged when
\* the digits cannot be parsed
C35_ToBaseUnitsTotal ==
    /\ pc[1] # "panic"
    /\ fromAmount # Nil =>
          \/ IsIntegerText(Deref(fromAmount))
          \/ Deref(fromAmount) = amount

\* every message up to the stored cursor is accounted for by the stored summary
CoveredUpToCursor ==
    conv.summary_up_to # Nil =>
        \A i \in DOMAIN msgs :
            msgs[i].created_at <= Deref(conv.summary_up_to) =>
                msgs[i].id \in Folded(conv.summary)

\* C36: under any interleaving of requests, the previous summary that a
\* summarization merges into its new summary is the summary that was stored
\* together with the cursor from which that summarization's message list was
\* selected (both come from one snapshot of the conversation record), so the
\* new summary covers every message up to the new cursor
C36_SummaryAndCursorFromOneSnapshot ==
    /\ \A p \in Procs :
          pc[p] = "update" =>
              \E v \in Variants :
                  Deref(summaryText[p]) = SummaryOf(summary[p], OldMsgs(allMsgs[p]), v)
    /\ CoveredUpToCursor

\* C37: whenever a pending-build marker for the conversation is present in
\* the cache, the suggestion it points at is also still present in the
\* suggestion cache, so an auto-continued Build can always look it up (the
\* marker never outlives its suggestion)
C37_MarkerNeverOutlivesSuggestion ==
    LET suggID == RedisGet(cache.pending_build)
    IN  suggID # Nil => RedisGet(cache.suggestion[Deref(suggID)]) # Nil

\* C38: if the Build that a Confirm turn auto-continues into fails, the
\* Confirm turn still succeeds and returns only the confirmation message (no
\* policy-ready or install-required payload); the pending-build marker,
\* already deleted, is not restored, so no later Confirm turn auto-continues
\* for it
C38_FailedResumeReturnsConfirmation ==
    \A p \in SeqProcs :
        (Resumed(p) /\ result[p].payload = "") =>
            /\ result[p].status = 200
            /\ result[p].error = ""
            /\ result[p].message \in DOMAIN msgs
            /\ msgs[result[p].message].content = "response"
            /\ RedisGet(cache.pending_build) = Nil

====
